---------------------------- MODULE Spec2Model ----------------------------
(***************************************************************************)
(* Model of the voxel engine's chunk streaming (chunk_manager.rs,          *)
(* render/chunk_atlas.rs), camera (camera.rs, collision.rs) and the frame  *)
(* loop (render/mod.rs).                                                   *)
(*                                                                         *)
(* f32 quantities are fixed-point integers: positions in 1/1000 voxel,     *)
(* angles in 1/1000 radian, times in milliseconds, normalised animation    *)
(* time in 1/1000.  Chunk coordinates, slots and counters are integers.    *)
(* 3-vectors are tuples <<x, y, z>>.                                       *)
(***************************************************************************)
EXTENDS Integers, Sequences, FiniteSets, TLC

VARIABLES
    view_distance,     \* ChunkManager.view_distance
    atlas_slots,       \* ChunkManager.atlas_slots
    chunk_gen,         \* ChunkManager.chunk_gen (which generator was captured)
    loaded,            \* ChunkManager.loaded : coord -> LoadedChunk
    visible,           \* ChunkManager.visible
    slots,             \* ChunkAtlas.slots (host-side shadow), indexed by slot
    index_buffer,      \* contents of the GPU index buffer, indexed by slot
    camera,            \* Renderer.camera
    input,             \* Renderer.input
    animation,         \* Renderer.animation (an Option)
    preload_position,  \* Renderer.preload_position (an Option)
    animation_just_completed, \* Renderer.animation_just_completed
    grid_info,         \* Renderer.grid_info / TickResult.grid_info
    tick_stats,        \* Renderer.tick_stats / TickResult.stats (an Option)
    last_time,         \* Renderer.last_time
    op,                \* observation: the operation that produced this state
    steps,             \* observation: number of operations performed
    stream             \* observation: the run of identical ticks in progress

vars == <<view_distance, atlas_slots, chunk_gen, loaded, visible, slots,
          index_buffer, camera, input, animation, preload_position,
          animation_just_completed, grid_info, tick_stats, last_time, op, steps,
          stream>>

mgrVars == <<view_distance, atlas_slots, chunk_gen, loaded, visible, slots,
             index_buffer>>

rendVars == <<camera, input, animation, preload_position,
              animation_just_completed, last_time>>

\* Option<T>: None is the empty tuple, Some(v) the one-element tuple
None == <<>>
Some(v) == <<v>>
IsSome(o) == o # <<>>
Unwrap(o) == o[1]

-----------------------------------------------------------------------------
(* Bounds of the model *)

\* operations per behaviour
MaxSteps == 2
\* number of distinct HashSet iteration orders the model draws from
HashOrders == 2
\* operations before a run of identical ticks begins
MaxPrior == 1
\* ticks made after a run of identical ticks has loaded everything
StreamExtra == 2
\* operations per behaviour of the camera and animation specifications
MaxCameraOps == 3
MaxAnimOps == 4
\* operations of a behaviour of SpecPreload
MaxPreloadOps == 4
\* operations of a behaviour of SpecSurface
MaxSurfaceOps == 3
\* operations of a behaviour of SpecInput
MaxInputOps == 3
\* advances of one animation in SpecF32
MaxAdvances == 3

-----------------------------------------------------------------------------
(* Program constants *)

CHUNK_SIZE == 32
\* camera.rs (per second; PITCH_LIMIT = 89 degrees in 1/1000 radian)
MOVE_SPEED == 10
ROTATE_SPEED == 2
PITCH_LIMIT == 1553
SPRINT_MULTIPLIER == 4
\* render/mod.rs
VIEW_DISTANCE == 3
ATLAS_SLOTS == <<8, 8, 8>>
CHUNK_BUDGET_PER_TICK == 4
\* the first frame's dt, 1/60 s, and the cap on dt, 0.1 s, in milliseconds
FIRST_DT == 17
DT_CAP == 100
\* u32::MAX, the budget of an unbudgeted tick (the largest integer available)
U32_MAX == 2147483647
\* one voxel / one radian / one second in fixed-point units
Milli == 1000

-----------------------------------------------------------------------------
(* Arithmetic helpers *)

Min(a, b) == IF a <= b THEN a ELSE b
Max(a, b) == IF a >= b THEN a ELSE b
Clamp(v, lo, hi) == Max(lo, Min(v, hi))
\* u32::saturating_sub
SaturatingSub(a, b) == IF a >= b THEN a - b ELSE 0
\* i32::div_euclid / f32::floor of a quotient, for a positive divisor
DivEuclid(a, n) == a \div n
\* i32::rem_euclid for a positive modulus
RemEuclid(a, n) == a % n

VAdd(a, b) == <<a[1] + b[1], a[2] + b[2], a[3] + b[3]>>
VSub(a, b) == <<a[1] - b[1], a[2] - b[2], a[3] - b[3]>>

Range(s) == {s[i] : i \in DOMAIN s}

-----------------------------------------------------------------------------
(* Chunk generation: the pluggable generator, chunk_gen : coord -> Chunk.   *)
(* A generated chunk is represented by the generator and coordinate it was  *)
(* produced from; its voxels are read through MaterialAt.                   *)

\* Height of the terrain column at world (wx, wz); the built-in generator's
\* heights lie in 8..40.
TerrainHeight(wx, wz) == 8 + ((wx + 3 * wz) % 33)

\* material_id of the voxel at local (x, y, z) of the chunk gen(coord)
MaterialAt(g, coord, x, y, z) ==
    CASE g = "terrain" ->
            LET world_y == coord[2] * CHUNK_SIZE + y
                h == TerrainHeight(coord[1] * CHUNK_SIZE + x, coord[3] * CHUNK_SIZE + z)
            IN  IF world_y > h THEN 0
                ELSE IF world_y = h THEN 1
                ELSE IF world_y + 3 >= h THEN 2
                ELSE 3
      [] g = "stone_floor" -> IF z = 0 THEN 3 ELSE 0
      [] OTHER -> 0

Generators == {"terrain", "stone_floor"}

GenChunk(g, coord) == [gen |-> g, coord |-> coord]

\* Chunk::is_empty: every cell has material_id 0.  For the generators above:
\* terrain columns reach at most height 40, every 32x32 footprint holds a
\* column of height 40, and the stone floor is never empty.
ChunkIsEmpty(chunk) ==
    CASE chunk.gen = "terrain" -> chunk.coord[2] * CHUNK_SIZE > 40
      [] chunk.gen = "stone_floor" -> FALSE
      [] OTHER -> TRUE


-----------------------------------------------------------------------------
(* f32 trigonometry in fixed point (angles and results in 1/1000).          *)

PiMilli == 3142
\* sin on [0, pi] by Bhaskara's rational approximation (error below 2/1000)
SinHalfTurn(x) ==
    LET p == x * (PiMilli - x)
    IN  (16 * p) \div ((5 * PiMilli * PiMilli - 4 * p) \div Milli)
Sin(a) ==
    LET r == a % (2 * PiMilli)
    IN  IF r <= PiMilli THEN SinHalfTurn(r) ELSE 0 - SinHalfTurn(r - PiMilli)
Cos(a) == Sin(a + PiMilli \div 2)

\* 2^(e/1000) in 1/1000, for e <= 0
RECURSIVE HalveTimes(_, _)
HalveTimes(v, k) == IF k = 0 THEN v ELSE HalveTimes(v \div 2, k - 1)
Pow2Milli(e) ==
    LET k == 0 - (e \div Milli)
        f == e % Milli
        frac == Milli + (f * (656 + (344 * f) \div Milli)) \div Milli
    IN  HalveTimes(frac, k)

-----------------------------------------------------------------------------
(* camera.rs: EasingKind, CameraAnimation *)

\* EasingKind::to_fn applied to t (t and the result in 1/1000)
Easing(kind, t) ==
    CASE kind = "Linear" -> t
      [] kind = "QuadInOut" ->
            IF 2 * t < Milli THEN (2 * t * t) \div Milli
            ELSE Milli - ((2 * Milli - 2 * t) * (2 * Milli - 2 * t)) \div (2 * Milli)
      [] kind = "CubicInOut" ->
            IF 2 * t < Milli THEN (4 * t * t * t) \div (Milli * Milli)
            ELSE Milli - ((2 * Milli - 2 * t) * (2 * Milli - 2 * t) * (2 * Milli - 2 * t))
                             \div (2 * Milli * Milli)
      [] kind = "SineInOut" -> (Milli - Cos((PiMilli * t) \div Milli)) \div 2
      [] kind = "ExpoInOut" ->
            IF t = 0 THEN 0
            ELSE IF t = Milli THEN Milli
            ELSE IF 2 * t < Milli THEN Pow2Milli(20 * t - 10 * Milli) \div 2
            ELSE (2 * Milli - Pow2Milli(10 * Milli - 20 * t)) \div 2

\* f32 linear interpolation a + (b - a) * t
Lerp(a, b, t) == a + ((b - a) * t) \div Milli
VLerp(a, b, t) == <<Lerp(a[1], b[1], t), Lerp(a[2], b[2], t), Lerp(a[3], b[3], t)>>

CameraAnimation_new(from_position, from_yaw, from_pitch, to_position, to_yaw, to_pitch, duration, easing_kind) ==
    [from_position |-> from_position, from_yaw |-> from_yaw, from_pitch |-> from_pitch,
     to_position |-> to_position, to_yaw |-> to_yaw, to_pitch |-> to_pitch,
     duration |-> duration, elapsed |-> 0, easing |-> easing_kind]

advance(anim, dt) == [anim EXCEPT !.elapsed = Min(anim.elapsed + dt, anim.duration)]

\* a variant with a strict comparison
is_complete_strict(anim) == anim.elapsed > anim.duration

is_complete(anim) == anim.elapsed >= anim.duration

position_at(anim, t) ==
    VLerp(anim.from_position, anim.to_position, Easing(anim.easing, Clamp(t, 0, Milli)))

\* returns <<position, yaw, pitch>>
interpolate(anim) ==
    LET t == IF anim.duration > 0
             THEN Easing(anim.easing, (anim.elapsed * Milli) \div anim.duration)
             ELSE Milli
    IN  <<VLerp(anim.from_position, anim.to_position, t),
          Lerp(anim.from_yaw, anim.to_yaw, t),
          Lerp(anim.from_pitch, anim.to_pitch, t)>>

(* The angles of interpolate in f32 arithmetic.  A value is an integer count *)
(* of 2^-25, so every f32 in [0.25, 64) with its sign, and every smaller     *)
(* multiple of 2^-25, is a value; RoundF32 rounds an exact result to the     *)
(* nearest f32 (24 significant bits, ties to even).                          *)
RoundF32(x) ==
    LET n == IF x < 0 THEN 0 - x ELSE x
        sh == CHOOSE k \in 0..7 : n \div (2 ^ k) < 2 ^ 24
        q == n \div (2 ^ sh)
        r == n % (2 ^ sh)
        up == IF 2 * r > 2 ^ sh \/ (2 * r = 2 ^ sh /\ q % 2 = 1) THEN 1 ELSE 0
        m == (q + up) * (2 ^ sh)
    IN  IF x < 0 THEN 0 - m ELSE m

\* from + (to - from) * t for t = 0.0 (t = 0) and t = 1.0 (t = 1), where the
\* product is exact
interpolate_f32(from, to, t) == RoundF32(from + RoundF32(to - from) * t)

\* floor(sqrt(n)) by bisection on lo..hi
RECURSIVE SqrtBetween(_, _, _)
SqrtBetween(n, lo, hi) ==
    IF lo >= hi THEN lo
    ELSE LET mid == (lo + hi + 1) \div 2
         IN  IF mid * mid <= n THEN SqrtBetween(n, mid, hi)
             ELSE SqrtBetween(n, lo, mid - 1)
\* sqrt(x^2 + z^2) for lengths in 1/1000 (computed in 1/100 to stay in range)
Hypot(x, z) == 10 * SqrtBetween((x \div 10) * (x \div 10) + (z \div 10) * (z \div 10), 0, 46340)

Abs(a) == IF a < 0 THEN 0 - a ELSE a
\* atan on [0, 1] (argument and result in 1/1000; error below 4/1000)
AtanUnit(z) == (785 * z + (273 * z * (Milli - z)) \div Milli) \div Milli
\* f32::atan2(y, x); neg_zero_y and neg_zero_x tell that y or x is -0.0
Atan2(y, x, neg_zero_y, neg_zero_x) ==
    LET ay == Abs(y)
        ax == Abs(x)
        a == IF ax = 0 /\ ay = 0 THEN 0
             ELSE IF ax >= ay THEN AtanUnit((ay * Milli) \div ax)
             ELSE PiMilli \div 2 - AtanUnit((ax * Milli) \div ay)
        b == IF x < 0 \/ (x = 0 /\ neg_zero_x) THEN PiMilli - a ELSE a
    IN  IF y < 0 \/ (y = 0 /\ neg_zero_y) THEN 0 - b ELSE b

-----------------------------------------------------------------------------
(* camera.rs: Camera, InputState *)

MulMilli(a, b) == (a * b) \div Milli
VScale(v, k) == <<MulMilli(v[1], k), MulMilli(v[2], k), MulMilli(v[3], k)>>

\* yaw and pitch that point from `position` toward `target`; a difference
\* of equal coordinates is +0.0 and its negation is -0.0
look_angles(position, target) ==
    LET dir == VSub(target, position)
    IN  <<Atan2(0 - dir[1], 0 - dir[3], dir[1] = 0, dir[3] = 0),
          Atan2(dir[2], Hypot(dir[1], dir[3]), FALSE, FALSE)>>

DEFAULT_LOOK_TARGET == <<64000, 20000, 64000>>
DEFAULT_POSITION == <<64000, 70000, -40000>>

Camera_default ==
    LET a == look_angles(DEFAULT_POSITION, DEFAULT_LOOK_TARGET)
    IN  [position |-> DEFAULT_POSITION, yaw |-> a[1], pitch |-> a[2], fov |-> 1047]

\* returns <<forward, right, up>> (components in 1/1000)
orientation_vectors(cam) ==
    LET sy == Sin(cam.yaw)
        cy == Cos(cam.yaw)
        sp == Sin(cam.pitch)
        cp == Cos(cam.pitch)
    IN  <<<<MulMilli(0 - sy, cp), sp, MulMilli(0 - cy, cp)>>,
          <<cy, 0, 0 - sy>>,
          <<MulMilli(sy, sp), cp, MulMilli(cy, sp)>>>>

clamp_pitch(cam) == [cam EXCEPT !.pitch = Clamp(cam.pitch, 0 - PITCH_LIMIT, PITCH_LIMIT)]

InputState_default ==
    [forward |-> FALSE, backward |-> FALSE, left |-> FALSE, right |-> FALSE,
     yaw_left |-> FALSE, yaw_right |-> FALSE, pitch_up |-> FALSE,
     pitch_down |-> FALSE, sprint |-> FALSE]

\* a variant of set_key in which "q" and "e" are exchanged
set_key_swapped(inp, key, pressed) ==
    CASE key = "w" -> [inp EXCEPT !.forward = pressed]
      [] key = "s" -> [inp EXCEPT !.backward = pressed]
      [] key = "a" -> [inp EXCEPT !.left = pressed]
      [] key = "d" -> [inp EXCEPT !.right = pressed]
      [] key = "e" -> [inp EXCEPT !.yaw_left = pressed]
      [] key = "q" -> [inp EXCEPT !.yaw_right = pressed]
      [] key = "r" -> [inp EXCEPT !.pitch_up = pressed]
      [] key = "f" -> [inp EXCEPT !.pitch_down = pressed]
      [] key = "shift" -> [inp EXCEPT !.sprint = pressed]
      [] OTHER -> inp

set_key(inp, key, pressed) ==
    CASE key = "w" -> [inp EXCEPT !.forward = pressed]
      [] key = "s" -> [inp EXCEPT !.backward = pressed]
      [] key = "a" -> [inp EXCEPT !.left = pressed]
      [] key = "d" -> [inp EXCEPT !.right = pressed]
      [] key = "q" -> [inp EXCEPT !.yaw_left = pressed]
      [] key = "e" -> [inp EXCEPT !.yaw_right = pressed]
      [] key = "r" -> [inp EXCEPT !.pitch_up = pressed]
      [] key = "f" -> [inp EXCEPT !.pitch_down = pressed]
      [] key = "shift" -> [inp EXCEPT !.sprint = pressed]
      [] OTHER -> inp

set_intent(inp, intent, active) ==
    CASE intent = "TrackForward" -> [inp EXCEPT !.forward = active]
      [] intent = "TrackBackward" -> [inp EXCEPT !.backward = active]
      [] intent = "TruckLeft" -> [inp EXCEPT !.left = active]
      [] intent = "TruckRight" -> [inp EXCEPT !.right = active]
      [] intent = "PanLeft" -> [inp EXCEPT !.yaw_left = active]
      [] intent = "PanRight" -> [inp EXCEPT !.yaw_right = active]
      [] intent = "TiltUp" -> [inp EXCEPT !.pitch_up = active]
      [] intent = "TiltDown" -> [inp EXCEPT !.pitch_down = active]
      [] intent = "Sprint" -> [inp EXCEPT !.sprint = active]

\* a variant of the layout that pads `up` to 16 bytes before `fov`, as a
\* vec3 followed by a vec4-aligned member would be
CameraUniform_padded_up ==
    <<<<"position", 12>>, <<"_pad0", 4>>, <<"forward", 12>>, <<"_pad1", 4>>,
      <<"right", 12>>, <<"_pad2", 4>>, <<"up", 12>>, <<"_pad_up", 4>>, <<"fov", 4>>,
      <<"width", 4>>, <<"height", 4>>, <<"_pad3", 4>>,
      <<"grid_origin", 12>>, <<"max_ray_distance", 4>>, <<"grid_size", 12>>,
      <<"_pad5", 4>>, <<"atlas_slots", 12>>, <<"_pad6", 4>>>>

\* The fields of CameraUniform in declaration order, each with its size in
\* bytes.  The struct is repr(C) and every field is made of 4-byte scalars
\* (f32, u32, i32), so a field starts where the one before it ends.
CameraUniform ==
    <<<<"position", 12>>, <<"_pad0", 4>>, <<"forward", 12>>, <<"_pad1", 4>>,
      <<"right", 12>>, <<"_pad2", 4>>, <<"up", 12>>, <<"fov", 4>>,
      <<"width", 4>>, <<"height", 4>>, <<"_pad3", 4>>, <<"_pad4", 4>>,
      <<"grid_origin", 12>>, <<"max_ray_distance", 4>>, <<"grid_size", 12>>,
      <<"_pad5", 4>>, <<"atlas_slots", 12>>, <<"_pad6", 4>>>>

\* Camera::to_uniform
to_uniform(cam, width, height, grid) ==
    LET ov == orientation_vectors(cam)
    IN  [position |-> cam.position,
         _pad0 |-> 0,
         forward |-> ov[1],
         _pad1 |-> 0,
         right |-> ov[2],
         _pad2 |-> 0,
         up |-> ov[3],
         fov |-> cam.fov,
         width |-> width,
         height |-> height,
         _pad3 |-> 0,
         _pad4 |-> 0,
         grid_origin |-> grid.origin,
         max_ray_distance |-> grid.max_ray_distance,
         grid_size |-> grid.size,
         _pad5 |-> 0,
         atlas_slots |-> grid.atlas_slots,
         _pad6 |-> 0]

\* Camera::update; dt in milliseconds
Camera_update(cam, inp, dt) ==
    LET ov == orientation_vectors(cam)
        forward == ov[1]
        right == ov[2]
        sprint == IF inp.sprint THEN SPRINT_MULTIPLIER ELSE 1
        move_amount == MOVE_SPEED * dt * sprint
        rot_amount == ROTATE_SPEED * dt * sprint
        p1 == IF inp.forward THEN VAdd(cam.position, VScale(forward, move_amount))
              ELSE cam.position
        p2 == IF inp.backward THEN VSub(p1, VScale(forward, move_amount)) ELSE p1
        p3 == IF inp.left THEN VSub(p2, VScale(right, move_amount)) ELSE p2
        p4 == IF inp.right THEN VAdd(p3, VScale(right, move_amount)) ELSE p3
        yaw == cam.yaw - (IF inp.yaw_left THEN rot_amount ELSE 0)
                       + (IF inp.yaw_right THEN rot_amount ELSE 0)
        pitch == cam.pitch + (IF inp.pitch_up THEN rot_amount ELSE 0)
                           - (IF inp.pitch_down THEN rot_amount ELSE 0)
    IN  clamp_pitch([cam EXCEPT !.position = p4, !.yaw = yaw, !.pitch = pitch])

apply_look_delta(cam, dyaw, dpitch) ==
    clamp_pitch([cam EXCEPT !.yaw = @ + dyaw, !.pitch = @ + dpitch])

apply_dolly(cam, amount) ==
    [cam EXCEPT !.position = VAdd(@, VScale(orientation_vectors(cam)[1], amount))]

apply_pan(cam, dx, dy) ==
    LET ov == orientation_vectors(cam)
    IN  [cam EXCEPT !.position = VAdd(VAdd(@, VScale(ov[2], dx)), VScale(ov[3], dy))]

Camera_look_at(cam, target) ==
    LET a == look_angles(cam.position, target)
    IN  clamp_pitch([cam EXCEPT !.yaw = a[1], !.pitch = a[2]])

-----------------------------------------------------------------------------
(* collision.rs and ChunkManager::is_solid *)

\* Vec3::floor().as_ivec3()
VoxelOf(pos) == <<DivEuclid(pos[1], Milli), DivEuclid(pos[2], Milli), DivEuclid(pos[3], Milli)>>

\* a variant that reports a crossing for every move
crosses_voxel_boundary_always(old, new) == TRUE

crosses_voxel_boundary(old, new) == VoxelOf(old) # VoxelOf(new)

\* CollisionMap::from_voxels + CollisionMap::is_solid on the chunk's voxels
CollisionMap_is_solid(chunk, x, y, z) ==
    IF x < 0 \/ x >= CHUNK_SIZE \/ y < 0 \/ y >= CHUNK_SIZE \/ z < 0 \/ z >= CHUNK_SIZE
    THEN FALSE
    ELSE MaterialAt(chunk.gen, chunk.coord, x, y, z) # 0

\* a variant that splits the voxel coordinate with a quotient truncated
\* towards zero
is_solid_truncating(ld, world_pos) ==
    LET v == VoxelOf(world_pos)
        quot(a) == IF a < 0 THEN 0 - ((0 - a) \div CHUNK_SIZE) ELSE a \div CHUNK_SIZE
        chunk_coord == <<quot(v[1]), quot(v[2]), quot(v[3])>>
    IN  IF chunk_coord \in DOMAIN ld
        THEN /\ IsSome(ld[chunk_coord].collision)
             /\ CollisionMap_is_solid(Unwrap(ld[chunk_coord].collision),
                                      v[1] - CHUNK_SIZE * chunk_coord[1],
                                      v[2] - CHUNK_SIZE * chunk_coord[2],
                                      v[3] - CHUNK_SIZE * chunk_coord[3])
        ELSE FALSE

is_solid(ld, world_pos) ==
    LET v == VoxelOf(world_pos)
        chunk_coord == <<DivEuclid(v[1], CHUNK_SIZE), DivEuclid(v[2], CHUNK_SIZE),
                         DivEuclid(v[3], CHUNK_SIZE)>>
    IN  IF chunk_coord \in DOMAIN ld
        THEN /\ IsSome(ld[chunk_coord].collision)
             /\ CollisionMap_is_solid(Unwrap(ld[chunk_coord].collision),
                                      RemEuclid(v[1], CHUNK_SIZE),
                                      RemEuclid(v[2], CHUNK_SIZE),
                                      RemEuclid(v[3], CHUNK_SIZE))
        ELSE FALSE

-----------------------------------------------------------------------------
(* render/chunk_atlas.rs *)

world_to_slot(coord, S) ==
    RemEuclid(coord[3], S[3]) * S[1] * S[2]
        + RemEuclid(coord[2], S[2]) * S[1]
        + RemEuclid(coord[1], S[1])

\* a variant that strides the Y axis by the Y extent instead of the X extent
slot_to_atlas_origin_ystride(slot, S) ==
    <<(slot % S[1]) * CHUNK_SIZE,
      ((slot \div S[2]) % S[2]) * CHUNK_SIZE,
      (slot \div (S[1] * S[2])) * CHUNK_SIZE>>

slot_to_atlas_origin(slot, S) ==
    <<(slot % S[1]) * CHUNK_SIZE,
      ((slot \div S[1]) % S[2]) * CHUNK_SIZE,
      (slot \div (S[1] * S[2])) * CHUNK_SIZE>>

total_slots(S) == S[1] * S[2] * S[3]

\* ChunkAtlas::new: every slot record is {world_pos: 0, flags: 0}, and the
\* index buffer is created from the same records
ChunkAtlas_new(S) ==
    [i \in 0..(total_slots(S) - 1) |-> [world_pos |-> <<0, 0, 0>>, flags |-> 0]]

(* The manager's mutable part is threaded through the operations as a record *)
(* m = [loaded, slots, index_buffer, gen_calls, writes]; gen_calls counts    *)
(* generator invocations and writes is the sequence of queue writes issued   *)
(* by the current operation.                                                 *)

write_buffer(m, slot) ==
    [m EXCEPT !.index_buffer[slot] = m.slots[slot],
              !.writes = Append(@, [kind |-> "buffer", slot |-> slot, rec |-> m.slots[slot]])]

write_texture(m, slot, S, chunk) ==
    [m EXCEPT !.writes = Append(@, [kind |-> "texture", slot |-> slot,
                                    origin |-> slot_to_atlas_origin(slot, S),
                                    chunk |-> chunk])]

\* a variant that writes the slot record before the texels
upload_chunk_record_first(m, slot, S, chunk, world_coord) ==
    LET m1 == [m EXCEPT !.slots[slot] = [world_pos |-> world_coord, flags |-> 1]]
        m2 == write_buffer(m1, slot)
    IN  write_texture(m2, slot, S, chunk)

upload_chunk(m, slot, S, chunk, world_coord) ==
    LET m1 == write_texture(m, slot, S, chunk)
        m2 == [m1 EXCEPT !.slots[slot] = [world_pos |-> world_coord, flags |-> 1]]
    IN  write_buffer(m2, slot)

\* a variant of clear_slot that updates the shadow record only
clear_slot_shadow_only(m, slot) ==
    [m EXCEPT !.slots[slot].flags = 0]

clear_slot(m, slot) ==
    LET m1 == [m EXCEPT !.slots[slot].flags = 0]
    IN  write_buffer(m1, slot)


-----------------------------------------------------------------------------
(* chunk_manager.rs *)

\* a variant that tells Loading from Stalled the wrong way round
StreamingState_from_counts_swapped(pending, loaded_this_tick) ==
    IF pending = 0 THEN "Idle"
    ELSE IF loaded_this_tick > 0 THEN "Stalled"
    ELSE "Loading"

StreamingState_from_counts(pending, loaded_this_tick) ==
    IF pending = 0 THEN "Idle"
    ELSE IF loaded_this_tick > 0 THEN "Loading"
    ELSE "Stalled"

\* the chunk containing a world position: floor(p / CHUNK_SIZE) per axis
cam_chunk_of(pos) ==
    <<DivEuclid(pos[1], CHUNK_SIZE * Milli),
      DivEuclid(pos[2], CHUNK_SIZE * Milli),
      DivEuclid(pos[3], CHUNK_SIZE * Milli)>>

\* a variant whose loops nest the other way round: x outermost, z innermost
compute_visible_set_x_major(camera_pos, vd) ==
    LET cc == cam_chunk_of(camera_pos)
        n == 2 * vd + 1
    IN  [i \in 1..(n * n * n) |->
            <<cc[1] - vd + ((i - 1) \div (n * n)),
              cc[2] - vd + (((i - 1) \div n) % n),
              cc[3] - vd + ((i - 1) % n)>>]

\* the Vec pushed by the three nested loops: z outermost, x innermost
compute_visible_set(camera_pos, vd) ==
    LET cc == cam_chunk_of(camera_pos)
        n == 2 * vd + 1
    IN  [i \in 1..(n * n * n) |->
            <<cc[1] - vd + ((i - 1) % n),
              cc[2] - vd + (((i - 1) \div n) % n),
              cc[3] - vd + ((i - 1) \div (n * n))>>]

\* a variant of the assertion that is off by one
ConstructionOk_weak(vd, S) ==
    LET min_slots == 2 * vd
    IN  S[1] >= min_slots /\ S[2] >= min_slots /\ S[3] >= min_slots

\* with_chunk_gen's assertion
ConstructionOk(vd, S) ==
    LET min_slots == 2 * vd + 1
    IN  S[1] >= min_slots /\ S[2] >= min_slots /\ S[3] >= min_slots

\* the order in which a HashSet built from `items` is iterated: unspecified
\* by the language, drawn by the model from HashOrders rotations of the
\* insertion order
HashIter(items, h) ==
    IF items = <<>> THEN <<>>
    ELSE [i \in 1..Len(items) |-> items[((i - 1 + 11 * h) % Len(items)) + 1]]

Dist2(c, cam_chunk) ==
    (c[1] - cam_chunk[1]) * (c[1] - cam_chunk[1])
        + (c[2] - cam_chunk[2]) * (c[2] - cam_chunk[2])
        + (c[3] - cam_chunk[3]) * (c[3] - cam_chunk[3])

\* slice::sort_by_key (stable) on the squared distance to the camera chunk
RECURSIVE SortFrom(_, _, _, _)
SortFrom(s, cam_chunk, key, max_key) ==
    IF key > max_key THEN <<>>
    ELSE SelectSeq(s, LAMBDA c : Dist2(c, cam_chunk) = key)
             \o SortFrom(s, cam_chunk, key + 1, max_key)
\* a variant that leaves the coordinates in the order they were collected
sort_by_key_unsorted(s, cam_chunk, vd) == s

sort_by_key(s, cam_chunk, vd) == SortFrom(s, cam_chunk, 0, 3 * vd * vd)

\* push every element of `s` that is not in `seen`, in order (s holds no
\* element twice)
PushNew(acc, seen, s) == acc \o SelectSeq(s, LAMBDA c : c \notin seen)

PredictionSamples == <<250, 500, 750, 1000>>

prediction_chunks(anim) ==
    LET box(i) == compute_visible_set(position_at(anim, PredictionSamples[i]), 1)
        r1 == PushNew(<<>>, {}, box(1))
        r2 == PushNew(r1, Range(r1), box(2))
        r3 == PushNew(r2, Range(r2), box(3))
    IN  PushNew(r3, Range(r3), box(4))

\* a variant that records the number of chunks' worth of slots before this
\* one instead of the slot
LoadedChunk_shifted(slot, chunk) ==
    IF ChunkIsEmpty(chunk)
    THEN [slot |-> slot + 1, collision |-> None, terrain |-> None]
    ELSE [slot |-> slot + 1, collision |-> Some(chunk), terrain |-> Some(chunk)]

\* a variant that extracts a terrain grid from empty chunks too
LoadedChunk_terrain_always(slot, chunk) ==
    IF ChunkIsEmpty(chunk)
    THEN [slot |-> slot, collision |-> None, terrain |-> Some(chunk)]
    ELSE [slot |-> slot, collision |-> Some(chunk), terrain |-> Some(chunk)]

\* the record inserted for a coordinate
LoadedChunk(slot, chunk) ==
    IF ChunkIsEmpty(chunk)
    THEN [slot |-> slot, collision |-> None, terrain |-> None]
    ELSE [slot |-> slot, collision |-> Some(chunk), terrain |-> Some(chunk)]

MapRemove(f, k) == [x \in (DOMAIN f) \ {k} |-> f[x]]
MapInsert(f, k, v) == [x \in (DOMAIN f) \cup {k} |-> IF x = k THEN v ELSE f[x]]

\* a variant that never finds an occupant
Occupant_none(ld, slot) == None

\* a variant that takes any loaded chunk for the occupant
Occupant_any(ld, slot) ==
    IF DOMAIN ld # {}
    THEN Some(CHOOSE c \in DOMAIN ld : \A d \in DOMAIN ld : ld[c].slot <= ld[d].slot)
    ELSE None

\* the occupant load_chunk finds for a slot
Occupant(ld, slot) ==
    IF \E c \in DOMAIN ld : ld[c].slot = slot
    THEN Some(CHOOSE c \in DOMAIN ld : ld[c].slot = slot)
    ELSE None

load_chunk(m, g, S, coord) ==
    IF coord \in DOMAIN m.loaded THEN m
    ELSE
        LET slot == world_to_slot(coord, S)
            occupant == Occupant(m.loaded, slot)
            m1 == IF IsSome(occupant)
                  THEN clear_slot([m EXCEPT !.loaded = MapRemove(@, Unwrap(occupant))], slot)
                  ELSE m
            chunk == GenChunk(g, coord)
            m2 == [m1 EXCEPT !.gen_calls = @ + 1]
            m3 == IF ChunkIsEmpty(chunk) THEN m2 ELSE upload_chunk(m2, slot, S, chunk, coord)
        IN  [m3 EXCEPT !.loaded = MapInsert(@, coord, LoadedChunk(slot, chunk))]

\* ChunkManager::terrain_grid
terrain_grid(ld, coord) ==
    IF coord \in DOMAIN ld THEN ld[coord].terrain ELSE None

\* a variant that clears the slot and keeps the record
unload_chunk_keeps_record(m, coord) ==
    IF coord \in DOMAIN m.loaded
    THEN clear_slot(m, m.loaded[coord].slot)
    ELSE m

unload_chunk(m, coord) ==
    IF coord \in DOMAIN m.loaded
    THEN clear_slot([m EXCEPT !.loaded = MapRemove(@, coord)], m.loaded[coord].slot)
    ELSE m

\* a variant whose size leaves out the last coordinate of each axis
compute_grid_info_exclusive(vis, S) ==
    IF vis = {}
    THEN [origin |-> <<0, 0, 0>>, size |-> <<0, 0, 0>>, atlas_slots |-> S,
          max_ray_distance |-> 0]
    ELSE
        LET lo(k) == CHOOSE v \in {c[k] : c \in vis} : \A c \in vis : v <= c[k]
            hi(k) == CHOOSE v \in {c[k] : c \in vis} : \A c \in vis : v >= c[k]
            size == <<hi(1) - lo(1), hi(2) - lo(2), hi(3) - lo(3)>>
            extent == <<size[1] * CHUNK_SIZE, size[2] * CHUNK_SIZE, size[3] * CHUNK_SIZE>>
            len2 == extent[1] * extent[1] + extent[2] * extent[2] + extent[3] * extent[3]
        IN  [origin |-> <<lo(1), lo(2), lo(3)>>,
             size |-> size,
             atlas_slots |-> S,
             max_ray_distance |->
                 CHOOSE n \in 0..(extent[1] + extent[2] + extent[3]) :
                     n * n >= len2 /\ (n = 0 \/ (n - 1) * (n - 1) < len2)]

compute_grid_info(vis, S) ==
    IF vis = {}
    THEN [origin |-> <<0, 0, 0>>, size |-> <<0, 0, 0>>, atlas_slots |-> S,
          max_ray_distance |-> 0]
    ELSE
        LET lo(k) == CHOOSE v \in {c[k] : c \in vis} : \A c \in vis : v <= c[k]
            hi(k) == CHOOSE v \in {c[k] : c \in vis} : \A c \in vis : v >= c[k]
            min_coord == <<lo(1), lo(2), lo(3)>>
            max_coord == <<hi(1), hi(2), hi(3)>>
            size == VAdd(VSub(max_coord, min_coord), <<1, 1, 1>>)
            extent == <<size[1] * CHUNK_SIZE, size[2] * CHUNK_SIZE, size[3] * CHUNK_SIZE>>
            len2 == extent[1] * extent[1] + extent[2] * extent[2] + extent[3] * extent[3]
        IN  [origin |-> min_coord,
             size |-> size,
             atlas_slots |-> S,
             \* extent.length().ceil()
             max_ray_distance |->
                 CHOOSE n \in 0..(extent[1] + extent[2] + extent[3]) :
                     n * n >= len2 /\ (n = 0 \/ (n - 1) * (n - 1) < len2)]

\* a variant that forgets to skip the loaded coordinates
to_load_visible_all(ld, camera_pos, vd, h) ==
    sort_by_key(HashIter(compute_visible_set(camera_pos, vd), h),
                cam_chunk_of(camera_pos), vd)

\* the queue built by tick_budgeted_with_prediction (h: the iteration order
\* of self.visible)
to_load_visible(ld, camera_pos, vd, h) ==
    LET vis_iter == HashIter(compute_visible_set(camera_pos, vd), h)
        have == DOMAIN ld
        pending == SelectSeq(vis_iter, LAMBDA c : c \notin have)
    IN  sort_by_key(pending, cam_chunk_of(camera_pos), vd)

\* a variant that queues the prediction coordinates ahead of the current view
to_load_queue_prediction_first(ld, q, anim) ==
    IF anim = None THEN q
    ELSE PushNew(<<>>, (DOMAIN ld) \cup Range(q), prediction_chunks(Unwrap(anim))) \o q

\* q: the sorted current-view queue; prediction coordinates are pushed when
\* neither loaded nor already queued
to_load_queue(ld, q, anim) ==
    IF anim = None THEN q
    ELSE PushNew(q, (DOMAIN ld) \cup Range(q), prediction_chunks(Unwrap(anim)))

\* a variant that ignores the budget
take_all(queue, budget) == queue

\* to_load.iter().take(budget as usize)
take(queue, budget) == SubSeq(queue, 1, Min(budget, Len(queue)))

\* a variant that looks for the chunk to be evicted after the load
TickBody_evict_after(acc, g, S, coord) ==
    LET slot == world_to_slot(coord, S)
        m == load_chunk(acc.m, g, S, coord)
        will_evict == \E c \in DOMAIN m.loaded : m.loaded[c].slot = slot /\ c # coord
    IN  [m |-> m,
         loaded_this_tick |-> acc.loaded_this_tick + 1,
         unloaded_this_tick |-> acc.unloaded_this_tick + (IF will_evict THEN 1 ELSE 0)]

\* one iteration of the loop over to_load.iter().take(budget):
\* acc = [m, loaded_this_tick, unloaded_this_tick]
TickBody(acc, g, S, coord) ==
    LET slot == world_to_slot(coord, S)
        ld == acc.m.loaded
        will_evict == \E c \in DOMAIN ld : ld[c].slot = slot /\ c # coord
    IN  [m |-> load_chunk(acc.m, g, S, coord),
         loaded_this_tick |-> acc.loaded_this_tick + 1,
         unloaded_this_tick |-> acc.unloaded_this_tick + (IF will_evict THEN 1 ELSE 0)]

\* the iterations for queue[lo..hi] in order.  The range is split in halves
\* and the first half evaluated before the second only to keep TLC's
\* evaluation shallow; the counter test is always true.
RECURSIVE TickLoop(_, _, _, _, _, _)
TickLoop(acc, g, S, queue, lo, hi) ==
    IF lo > hi THEN acc
    ELSE IF lo = hi THEN TickBody(acc, g, S, queue[lo])
    ELSE LET mid == (lo + hi) \div 2
             first_half == TickLoop(acc, g, S, queue, lo, mid)
         IN  IF first_half.loaded_this_tick >= 0
             THEN TickLoop(first_half, g, S, queue, mid + 1, hi)
             ELSE first_half

\* returns [m, visible, queue_len, processed, grid_info, stats]
tick_budgeted_with_prediction(m, g, S, vd, camera_pos, budget, anim, h) ==
    LET stats(loaded_this_tick, unloaded_this_tick, pending_count,
              total_loaded, total_visible) ==
            [loaded_this_tick |-> loaded_this_tick,
             unloaded_this_tick |-> unloaded_this_tick,
             pending_count |-> pending_count,
             total_loaded |-> total_loaded,
             total_visible |-> total_visible,
             cached_count |-> SaturatingSub(total_loaded, total_visible),
             budget |-> budget,
             streaming_state |->
                 StreamingState_from_counts(pending_count, loaded_this_tick)]
        finish(vis, visible_pending, queue, taken, done) ==
            [m |-> done.m,
             visible |-> vis,
             queue_len |-> Len(queue),
             processed |-> taken,
             grid_info |-> compute_grid_info(vis, S),
             stats |-> stats(done.loaded_this_tick, done.unloaded_this_tick,
                             SaturatingSub(visible_pending, done.loaded_this_tick),
                             Cardinality(DOMAIN done.m.loaded), Cardinality(vis))]
        loop(vis, to_load, queue, taken) ==
            finish(vis, Len(to_load), queue, taken,
                   TickLoop([m |-> m, loaded_this_tick |-> 0, unloaded_this_tick |-> 0],
                            g, S, taken, 1, Len(taken)))
        queued(vis, to_load, queue) == loop(vis, to_load, queue, take(queue, budget))
        sorted(vis, to_load) == queued(vis, to_load, to_load_queue(m.loaded, to_load, anim))
    IN  sorted(Range(compute_visible_set(camera_pos, vd)),
               to_load_visible(m.loaded, camera_pos, vd, h))


-----------------------------------------------------------------------------
(* Specification Spec: a chunk manager driven through its public            *)
(* operations load_chunk, unload_chunk and tick_budgeted_with_prediction.   *)

EmptyMap == [c \in {} |-> None]

\* construction parameters offered to with_chunk_gen; its assertion rejects
\* the last one
Configs == {<<1, <<3, 3, 3>>>>, <<1, <<4, 3, 3>>>>, <<1, <<2, 3, 3>>>>}

\* observer positions: the centres of chunks (0,0,0) and (-1,1,0)
PosA == <<16000, 16000, 16000>>
PosB == <<-16000, 48000, 16000>>
TickPositions == {PosA, PosB}
Budgets == {0, 20, 100}
\* animation target: the centre of chunk (3,0,0), reached in two seconds
AnimTarget == <<112000, 16000, 16000>>
TickAnim(pos) == Some(CameraAnimation_new(pos, 0, 0, AnimTarget, 0, 0, 2000, "Linear"))
\* coordinates given to load_chunk / unload_chunk: two coordinates three
\* apart on x and one high enough to be all air
LoadCoords == {<<0, 0, 0>>, <<3, 0, 0>>, <<0, 2, 0>>}

\* the ticks offered: every position and budget without animation, budgeted
\* and unbudgeted ticks with an animation, and a budgeted tick under every
\* other iteration order of the visible set
TickCases ==
    {[pos |-> p, budget |-> b, anim |-> None, h |-> 0] : p \in TickPositions, b \in Budgets}
    \cup {[pos |-> PosA, budget |-> b, anim |-> TickAnim(PosA), h |-> 0] : b \in Budgets \ {0}}
    \cup {[pos |-> PosA, budget |-> 20, anim |-> None, h |-> h] : h \in 1..(HashOrders - 1)}

MgrOf == [loaded |-> loaded, slots |-> slots, index_buffer |-> index_buffer,
          gen_calls |-> 0, writes |-> <<>>]

NoOp == [kind |-> "new", coord |-> None, pos |-> None, budget |-> 0,
         anim |-> None, queue_len |-> 0, processed |-> <<>>, gen_calls |-> 0,
         writes |-> <<>>, dt |-> 0, mode |-> "", attempt |-> None, result |-> None,
         args |-> None, panicked |-> FALSE]

ManagerInit ==
    /\ \E cfg \in Configs :
          /\ ConstructionOk(cfg[1], cfg[2])
          /\ view_distance = cfg[1]
          /\ atlas_slots = cfg[2]
          /\ slots = ChunkAtlas_new(cfg[2])
          /\ index_buffer = ChunkAtlas_new(cfg[2])
    /\ chunk_gen \in Generators
    /\ loaded = EmptyMap
    /\ visible = {}
    /\ grid_info = compute_grid_info({}, atlas_slots)
    /\ tick_stats = None
    /\ op = NoOp
    /\ steps = 0
    /\ stream = None

Init ==
    /\ ManagerInit
    /\ camera = None
    /\ input = None
    /\ animation = None
    /\ preload_position = None
    /\ animation_just_completed = FALSE
    /\ last_time = 0

StoreMgr(m) ==
    /\ loaded' = m.loaded
    /\ slots' = m.slots
    /\ index_buffer' = m.index_buffer

LoadChunkEffect(coord) ==
    /\ LET m == load_chunk(MgrOf, chunk_gen, atlas_slots, coord)
       IN  /\ StoreMgr(m)
           /\ op' = [NoOp EXCEPT !.kind = "load_chunk", !.coord = Some(coord),
                                 !.gen_calls = m.gen_calls, !.writes = m.writes]
    /\ steps' = steps + 1
    /\ UNCHANGED <<view_distance, atlas_slots, chunk_gen, visible, grid_info,
                   tick_stats, rendVars>>

UnloadChunkEffect(coord) ==
    /\ LET m == unload_chunk(MgrOf, coord)
       IN  /\ StoreMgr(m)
           /\ op' = [NoOp EXCEPT !.kind = "unload_chunk", !.coord = Some(coord),
                                 !.gen_calls = m.gen_calls, !.writes = m.writes]
    /\ steps' = steps + 1
    /\ UNCHANGED <<view_distance, atlas_slots, chunk_gen, visible, grid_info,
                   tick_stats, rendVars>>

TickEffect(pos, budget, anim, h) ==
    /\ LET r == tick_budgeted_with_prediction(MgrOf, chunk_gen, atlas_slots,
                                              view_distance, pos, budget, anim, h)
       IN  /\ StoreMgr(r.m)
           /\ visible' = r.visible
           /\ grid_info' = r.grid_info
           /\ tick_stats' = Some(r.stats)
           /\ op' = [NoOp EXCEPT !.kind = "tick", !.pos = Some(pos), !.budget = budget,
                                 !.anim = anim, !.queue_len = r.queue_len,
                                 !.processed = r.processed,
                                 !.gen_calls = r.m.gen_calls, !.writes = r.m.writes]
    /\ steps' = steps + 1
    /\ UNCHANGED <<view_distance, atlas_slots, chunk_gen, rendVars>>

LoadChunk(coord) ==
    steps < MaxSteps /\ LoadChunkEffect(coord) /\ UNCHANGED stream

UnloadChunk(coord) ==
    steps < MaxSteps /\ UnloadChunkEffect(coord) /\ UNCHANGED stream

Tick(pos, budget, anim, h) ==
    steps < MaxSteps /\ TickEffect(pos, budget, anim, h) /\ UNCHANGED stream

Next ==
    \/ \E c \in LoadCoords : LoadChunk(c)
    \/ \E c \in LoadCoords : UnloadChunk(c)
    \/ \E t \in TickCases : Tick(t.pos, t.budget, t.anim, t.h)

Spec == Init /\ [][Next]_vars

-----------------------------------------------------------------------------
(* Specification SpecNew: construction attempts with parameters on both     *)
(* sides of with_chunk_gen's assertion, each followed by operations on the  *)
(* manager if one was produced.  op.args holds the parameters and           *)
(* op.panicked tells that the assertion failed.                             *)

NewInit ==
    /\ \E vd \in 0..1, S \in {<<3, 3, 3>>, <<4, 3, 3>>, <<2, 3, 3>>, <<3, 2, 3>>,
                               <<3, 3, 2>>, <<1, 1, 1>>, <<1, 0, 1>>} :
          /\ view_distance = vd
          /\ atlas_slots = S
          /\ op = [NoOp EXCEPT !.args = Some(<<vd, S>>), !.panicked = ~ConstructionOk(vd, S)]
          /\ slots = ChunkAtlas_new(IF ConstructionOk(vd, S) THEN S ELSE <<0, 0, 0>>)
          /\ index_buffer = slots
    /\ chunk_gen = "terrain"
    /\ loaded = EmptyMap
    /\ visible = {}
    /\ grid_info = compute_grid_info({}, atlas_slots)
    /\ tick_stats = None
    /\ steps = 0
    /\ stream = None
    /\ camera = None
    /\ input = None
    /\ animation = None
    /\ preload_position = None
    /\ animation_just_completed = FALSE
    /\ last_time = 0

NextNew ==
    \/ \E c \in LoadCoords : ~op.panicked /\ LoadChunk(c)
    \/ \E c \in LoadCoords : ~op.panicked /\ UnloadChunk(c)
    \/ \E b \in Budgets : ~op.panicked /\ Tick(PosA, b, None, 0)

SpecNew == NewInit /\ [][NextNew]_vars

-----------------------------------------------------------------------------
(* Specification SpecF32: interpolate's angle arithmetic applied to pairs   *)
(* of f32 angles at the start (t = 0.0) and at the end (t = 1.0) of an      *)
(* animation.  The angles, in units of 2^-25: 0.25, 0.3f32, 0.7f32, 1.0,    *)
(* 1.5, 3.0, 16.0 and their negations.  An animation between two of these   *)
(* angles may also be created and advanced by frame times that fall short   *)
(* of, meet and overshoot its duration; its time is in milliseconds and     *)
(* its position does not move.                                              *)

\* CameraAnimation::new with yaw angles in units of 2^-25
AnimateF32(from, to, duration) ==
    /\ op.kind = "new"
    /\ animation' = Some(CameraAnimation_new(<<0, 0, 0>>, from, 0, <<0, 0, 0>>, to, 0,
                                             duration, "Linear"))
    /\ op' = [NoOp EXCEPT !.kind = "animate", !.args = Some(<<from, to, 0>>),
                          !.attempt = Some(interpolate_f32(from, to, 0))]
    /\ steps' = steps + 1
    /\ UNCHANGED <<mgrVars, visible, grid_info, tick_stats, camera, input,
                   preload_position, animation_just_completed, last_time, stream>>

\* CameraAnimation::advance followed by interpolate; op.attempt is the yaw
\* returned at the start and at the end of the animation (an angle in
\* between is not computed)
AdvanceF32(dt) ==
    /\ IsSome(animation)
    /\ steps <= MaxAdvances
    /\ LET a == advance(Unwrap(animation), dt)
       IN  /\ animation' = Some(a)
           /\ op' = [NoOp EXCEPT !.kind = "advance", !.dt = dt,
                                 !.attempt =
                                     IF is_complete(a)
                                     THEN Some(interpolate_f32(a.from_yaw, a.to_yaw, 1))
                                     ELSE IF a.elapsed = 0
                                     THEN Some(interpolate_f32(a.from_yaw, a.to_yaw, 0))
                                     ELSE None]
    /\ steps' = steps + 1
    /\ UNCHANGED <<mgrVars, visible, grid_info, tick_stats, camera, input,
                   preload_position, animation_just_completed, last_time, stream>>

NextF32 ==
    \/ \E from, to \in {k * v : k \in {-1, 1}, v \in {10066330, 50331648, 536870912}} :
          \E duration \in {40, 100} : AnimateF32(from, to, duration)
    \/ \E dt \in {0, 17, 40, 100} : AdvanceF32(dt)
    \/ \E from, to \in {k * v : k \in {-1, 1},
                               v \in {8388608, 10066330, 23488102, 33554432,
                                      50331648, 100663296, 536870912}} :
          \E t \in {0, 1} :
              /\ op.kind = "new"
              /\ op' = [NoOp EXCEPT !.kind = "interpolate", !.args = Some(<<from, to, t>>),
                                    !.attempt = Some(interpolate_f32(from, to, t))]
              /\ steps' = steps + 1
              /\ UNCHANGED <<mgrVars, visible, grid_info, tick_stats, rendVars, stream>>

SpecF32 == Init /\ [][NextF32]_vars

-----------------------------------------------------------------------------
(* Specification SpecStream: after at most MaxPrior earlier operations, a   *)
(* stationary observer ticks with a fixed budget and no animation, as the   *)
(* frame loop does while the camera rests.  The run of ticks draws one      *)
(* iteration order; stream = [pos, budget, h, m0, n] records the position,  *)
(* the budget, the order, the number of visible coordinates not loaded when *)
(* the run began and the number of ticks made.                              *)

StreamBudgets == {1, 4, 10}

\* ceil(m / b)
CeilDiv(m, b) == (m + b - 1) \div b

NotLoadedAt(pos) ==
    {c \in Range(compute_visible_set(pos, view_distance)) : c \notin DOMAIN loaded}

StreamPriorLoad(coord) ==
    /\ stream = None
    /\ steps < MaxPrior
    /\ LoadChunkEffect(coord)
    /\ UNCHANGED stream

StreamPriorTick(pos) ==
    /\ stream = None
    /\ steps < MaxPrior
    /\ TickEffect(pos, 100, None, 0)
    /\ UNCHANGED stream

StreamFirstTick(budget, h) ==
    /\ stream = None
    /\ TickEffect(PosA, budget, None, h)
    /\ stream' = Some([pos |-> PosA, budget |-> budget, h |-> h,
                        m0 |-> Cardinality(NotLoadedAt(PosA)), n |-> 1])

StreamTick ==
    /\ stream # None
    /\ LET st == Unwrap(stream)
       IN  /\ st.n < CeilDiv(st.m0, st.budget) + StreamExtra
           /\ TickEffect(st.pos, st.budget, None, st.h)
           /\ stream' = Some([st EXCEPT !.n = @ + 1])

NextStream ==
    \/ \E c \in LoadCoords : StreamPriorLoad(c)
    \/ \E pos \in TickPositions : StreamPriorTick(pos)
    \/ \E b \in StreamBudgets, h \in 0..(HashOrders - 1) : StreamFirstTick(b, h)
    \/ StreamTick

SpecStream == Init /\ [][NextStream]_vars

-----------------------------------------------------------------------------
(* render/mod.rs: the Renderer's operations.  Each takes the bound on the   *)
(* number of operations of the specification that uses it.                  *)

\* the iteration order of the visible set in this frame's tick
FrameHash == steps % HashOrders

NewManager(S) ==
    [loaded |-> EmptyMap, slots |-> ChunkAtlas_new(S), index_buffer |-> ChunkAtlas_new(S),
     gen_calls |-> 0, writes |-> <<>>]

\* Renderer::new: ChunkManager::new, then the unbudgeted tick at the default
\* camera position
RendererInit ==
    /\ ConstructionOk(VIEW_DISTANCE, ATLAS_SLOTS)
    /\ view_distance = VIEW_DISTANCE
    /\ atlas_slots = ATLAS_SLOTS
    /\ chunk_gen = "terrain"
    /\ LET r == tick_budgeted_with_prediction(NewManager(ATLAS_SLOTS), "terrain",
                    ATLAS_SLOTS, VIEW_DISTANCE, Camera_default.position, U32_MAX, None, 0)
       IN  /\ loaded = r.m.loaded
           /\ slots = r.m.slots
           /\ index_buffer = r.m.index_buffer
           /\ visible = r.visible
           /\ grid_info = r.grid_info
    /\ camera = Camera_default
    /\ input = InputState_default
    /\ animation = None
    /\ preload_position = None
    /\ animation_just_completed = FALSE
    /\ tick_stats = None
    /\ last_time = 0
    /\ op = NoOp
    /\ steps = 0
    /\ stream = None

sprint_multiplier == IF input.sprint THEN SPRINT_MULTIPLIER ELSE 1

\* the position kept after an attempted translation of `cam` from old_pos
collide(old_pos, cam) ==
    IF crosses_voxel_boundary(old_pos, cam.position) /\ is_solid(loaded, cam.position)
    THEN [cam EXCEPT !.position = old_pos]
    ELSE cam

\* a variant of the preload loop that stops at the per-tick budget
preload_chunks_budgeted(m, preload) ==
    LET coords == take(compute_visible_set(preload, view_distance), CHUNK_BUDGET_PER_TICK)
    IN  TickLoop([m |-> m, loaded_this_tick |-> 0, unloaded_this_tick |-> 0],
                 chunk_gen, atlas_slots, coords, 1, Len(coords)).m

\* the loop over compute_visible_set(preload, vd) calling load_chunk
preload_chunks(m, preload) ==
    LET coords == compute_visible_set(preload, view_distance)
    IN  TickLoop([m |-> m, loaded_this_tick |-> 0, unloaded_this_tick |-> 0],
                 chunk_gen, atlas_slots, coords, 1, Len(coords)).m

\* the camera's pose set from an animation's interpolation
posed(cam, anim) ==
    LET pose == interpolate(anim)
    IN  [cam EXCEPT !.position = pose[1], !.yaw = pose[2], !.pitch = pose[3]]

\* a variant that integrates the held intents on top of the animation
frame_camera_mixed(cam, inp, anim, dt) ==
    LET c == IF IsSome(anim) THEN posed(cam, Unwrap(anim)) ELSE cam
    IN  collide(c.position, Camera_update(c, inp, dt))

\* the two branches of render: the pose of the (advanced) animation if one
\* is active, else the manual update with its collision check
frame_camera(cam, inp, anim, dt) ==
    IF IsSome(anim) THEN posed(cam, Unwrap(anim))
    ELSE collide(cam.position, Camera_update(cam, inp, dt))

\* a variant that writes the camera uniform before the camera update and
\* the tick
RenderFrame_stale_uniform(time, max, surface_ok) ==
    /\ steps < max
    /\ LET dt == IF last_time > 0 THEN Min(time - last_time, DT_CAP) ELSE FIRST_DT
           anim == IF IsSome(animation) THEN Some(advance(Unwrap(animation), dt)) ELSE None
           moved == Camera_update(camera, input, dt)
           cam == frame_camera(camera, input, anim, dt)
           anim_after == IF IsSome(anim) /\ ~is_complete(Unwrap(anim)) THEN anim ELSE None
           r == tick_budgeted_with_prediction(MgrOf, chunk_gen, atlas_slots, view_distance,
                                              cam.position, CHUNK_BUDGET_PER_TICK,
                                              anim_after, FrameHash)
           m == IF IsSome(preload_position)
                THEN preload_chunks(r.m, Unwrap(preload_position))
                ELSE r.m
       IN  /\ last_time' = time
           /\ camera' = cam
           /\ animation' = anim_after
           /\ animation_just_completed' =
                  IF IsSome(anim) /\ is_complete(Unwrap(anim)) THEN TRUE
                  ELSE animation_just_completed
           /\ StoreMgr(m)
           /\ visible' = r.visible
           /\ grid_info' = r.grid_info
           /\ tick_stats' = Some(r.stats)
           /\ op' = [NoOp EXCEPT !.kind = "render", !.dt = dt,
                                 !.mode = IF IsSome(animation) THEN "animation" ELSE "manual",
                                 !.attempt = IF IsSome(animation) THEN None
                                             ELSE Some(moved.position),
                                 !.pos = Some(cam.position),
                                 !.budget = CHUNK_BUDGET_PER_TICK, !.anim = anim_after,
                                 !.queue_len = r.queue_len, !.processed = r.processed,
                                 !.gen_calls = m.gen_calls, !.writes = m.writes,
                                 !.args = Some(to_uniform(camera, 800, 600, grid_info)),
                                 !.panicked = ~surface_ok]
    /\ steps' = steps + 1
    /\ UNCHANGED <<view_distance, atlas_slots, chunk_gen, input, preload_position, stream>>

\* render; surface_ok: whether surface.get_current_texture() returns Ok.
\* Its Err makes expect() panic after the camera, the tick and the preload
\* loop have run.
\* op.args is the camera uniform handed to update_camera.
RenderFrame(time, max, surface_ok) ==
    /\ steps < max
    /\ LET dt == IF last_time > 0 THEN Min(time - last_time, DT_CAP) ELSE FIRST_DT
           anim == IF IsSome(animation) THEN Some(advance(Unwrap(animation), dt)) ELSE None
           moved == Camera_update(camera, input, dt)
           cam == frame_camera(camera, input, anim, dt)
           anim_after == IF IsSome(anim) /\ ~is_complete(Unwrap(anim)) THEN anim ELSE None
           r == tick_budgeted_with_prediction(MgrOf, chunk_gen, atlas_slots, view_distance,
                                              cam.position, CHUNK_BUDGET_PER_TICK,
                                              anim_after, FrameHash)
           m == IF IsSome(preload_position)
                THEN preload_chunks(r.m, Unwrap(preload_position))
                ELSE r.m
       IN  /\ last_time' = time
           /\ camera' = cam
           /\ animation' = anim_after
           /\ animation_just_completed' =
                  IF IsSome(anim) /\ is_complete(Unwrap(anim)) THEN TRUE
                  ELSE animation_just_completed
           /\ StoreMgr(m)
           /\ visible' = r.visible
           /\ grid_info' = r.grid_info
           /\ tick_stats' = Some(r.stats)
           /\ op' = [NoOp EXCEPT !.kind = "render", !.dt = dt,
                                 !.mode = IF IsSome(animation) THEN "animation" ELSE "manual",
                                 !.attempt = IF IsSome(animation) THEN None
                                             ELSE Some(moved.position),
                                 !.pos = Some(cam.position),
                                 !.budget = CHUNK_BUDGET_PER_TICK, !.anim = anim_after,
                                 !.queue_len = r.queue_len, !.processed = r.processed,
                                 !.gen_calls = m.gen_calls, !.writes = m.writes,
                                 !.args = Some(to_uniform(cam, 800, 600, r.grid_info)),
                                 !.panicked = ~surface_ok]
    /\ steps' = steps + 1
    /\ UNCHANGED <<view_distance, atlas_slots, chunk_gen, input, preload_position, stream>>

\* a frame whose surface texture is available
Render(time, max) == RenderFrame(time, max, TRUE)

\* what every event handler leaves alone
EventFrame ==
    /\ steps' = steps + 1
    /\ UNCHANGED <<mgrVars, visible, grid_info, tick_stats, preload_position,
                   last_time, stream>>

PointerMove(dx, dy, max) ==
    /\ steps < max
    /\ camera' = apply_look_delta(camera, dx * sprint_multiplier, dy * sprint_multiplier)
    /\ op' = [NoOp EXCEPT !.kind = "pointer_move"]
    /\ EventFrame
    /\ UNCHANGED <<input, animation, animation_just_completed>>

Scroll(dy, max) ==
    /\ steps < max
    /\ LET moved == apply_dolly(camera, dy * sprint_multiplier)
       IN  /\ camera' = collide(camera.position, moved)
           /\ op' = [NoOp EXCEPT !.kind = "scroll", !.attempt = Some(moved.position)]
    /\ EventFrame
    /\ UNCHANGED <<input, animation, animation_just_completed>>

Pan(dx, dy, max) ==
    /\ steps < max
    /\ LET moved == apply_pan(camera, dx * sprint_multiplier, dy * sprint_multiplier)
       IN  /\ camera' = collide(camera.position, moved)
           /\ op' = [NoOp EXCEPT !.kind = "pan", !.attempt = Some(moved.position)]
    /\ EventFrame
    /\ UNCHANGED <<input, animation, animation_just_completed>>

\* a variant of set_camera that leaves a running animation alone
SetCamera_keeps_animation(pos, yaw, pitch, max) ==
    /\ steps < max
    /\ camera' = clamp_pitch([camera EXCEPT !.position = pos, !.yaw = yaw, !.pitch = pitch])
    /\ op' = [NoOp EXCEPT !.kind = "set_camera", !.args = Some(<<pos, yaw, pitch>>),
                          !.mode = IF IsSome(animation) THEN "animation" ELSE "manual"]
    /\ EventFrame
    /\ UNCHANGED <<input, animation, animation_just_completed>>

SetCamera(pos, yaw, pitch, max) ==
    /\ steps < max
    /\ animation' = None
    /\ camera' = clamp_pitch([camera EXCEPT !.position = pos, !.yaw = yaw, !.pitch = pitch])
    /\ op' = [NoOp EXCEPT !.kind = "set_camera", !.args = Some(<<pos, yaw, pitch>>),
                          !.mode = IF IsSome(animation) THEN "animation" ELSE "manual"]
    /\ EventFrame
    /\ UNCHANGED <<input, animation_just_completed>>

AnimateCamera(to_pos, to_yaw, to_pitch, duration, easing, max) ==
    /\ steps < max
    /\ animation' = Some(CameraAnimation_new(camera.position, camera.yaw, camera.pitch,
                                             to_pos, to_yaw, to_pitch, duration, easing))
    /\ op' = [NoOp EXCEPT !.kind = "animate_camera"]
    /\ EventFrame
    /\ UNCHANGED <<camera, input, animation_just_completed>>

TakeAnimationCompleted(max) ==
    /\ steps < max
    /\ animation_just_completed' = FALSE
    /\ op' = [NoOp EXCEPT !.kind = "take_animation_completed",
                          !.result = Some(animation_just_completed)]
    /\ EventFrame
    /\ UNCHANGED <<camera, input, animation>>

BeginIntent(intent, max) ==
    /\ steps < max
    /\ input' = set_intent(input, intent, TRUE)
    /\ op' = [NoOp EXCEPT !.kind = "begin_intent", !.mode = intent]
    /\ EventFrame
    /\ UNCHANGED <<camera, animation, animation_just_completed>>

EndIntent(intent, max) ==
    /\ steps < max
    /\ input' = set_intent(input, intent, FALSE)
    /\ op' = [NoOp EXCEPT !.kind = "end_intent", !.mode = intent]
    /\ EventFrame
    /\ UNCHANGED <<camera, animation, animation_just_completed>>

\* handle_key_down: the renderer hands the key label to its InputState
KeyDown(key, max) ==
    /\ steps < max
    /\ input' = set_key(input, key, TRUE)
    /\ op' = [NoOp EXCEPT !.kind = "key_down", !.mode = key]
    /\ EventFrame
    /\ UNCHANGED <<camera, animation, animation_just_completed>>

\* handle_key_up
KeyUp(key, max) ==
    /\ steps < max
    /\ input' = set_key(input, key, FALSE)
    /\ op' = [NoOp EXCEPT !.kind = "key_up", !.mode = key]
    /\ EventFrame
    /\ UNCHANGED <<camera, animation, animation_just_completed>>

LookAt(target, max) ==
    /\ steps < max
    /\ camera' = Camera_look_at(camera, target)
    /\ op' = [NoOp EXCEPT !.kind = "look_at"]
    /\ EventFrame
    /\ UNCHANGED <<input, animation, animation_just_completed>>

PreloadView(pos, max) ==
    /\ steps < max
    /\ preload_position' = Some(pos)
    /\ op' = [NoOp EXCEPT !.kind = "preload_view", !.args = Some(pos)]
    /\ steps' = steps + 1
    /\ UNCHANGED <<mgrVars, visible, grid_info, tick_stats, camera, input, animation,
                   animation_just_completed, last_time, stream>>

-----------------------------------------------------------------------------
(* Specification SpecCamera: the renderer driven by camera events and       *)
(* frames.  The poses stand on the terrain column at x = 64, z = 16, whose  *)
(* top voxel is at y = 21: one in the air voxel above it, one inside the    *)
(* ground with a pitch beyond the limit.                                    *)

GroundPose == <<<<64500, 22500, 16500>>, 0, 0>>
BuriedPose == <<<<64500, 20500, 16500>>, 0, 2000>>
CameraPoses == {GroundPose, BuriedPose}
ScrollAmounts == {1000, -1000}
PanAmounts == {<<0, -1000>>}
LookDeltas == {<<100, 2000>>}
LookTargets == {<<64500, 90000, 16500>>}
\* time between two frames, in milliseconds
FrameDeltas == {40, 250}
\* an animation whose target pitch is 100 degrees
SteepAnimation == [to_pos |-> <<64500, 30500, 16500>>, to_yaw |-> 0, to_pitch |-> 1745,
                   duration |-> 50, easing |-> "QuadInOut"]

NextCamera ==
    \/ \E d \in FrameDeltas : Render(last_time + d, MaxCameraOps)
    \/ \E l \in LookDeltas : PointerMove(l[1], l[2], MaxCameraOps)
    \/ \E dy \in ScrollAmounts : Scroll(dy, MaxCameraOps)
    \/ \E a \in PanAmounts : Pan(a[1], a[2], MaxCameraOps)
    \/ \E c \in CameraPoses : SetCamera(c[1], c[2], c[3], MaxCameraOps)
    \/ \E a \in {SteepAnimation} :
          AnimateCamera(a.to_pos, a.to_yaw, a.to_pitch, a.duration, a.easing, MaxCameraOps)
    \/ \E i \in {"TrackForward", "Sprint"} : BeginIntent(i, MaxCameraOps)
    \/ \E t \in LookTargets : LookAt(t, MaxCameraOps)

SpecCamera == RendererInit /\ [][NextCamera]_vars

-----------------------------------------------------------------------------
(* Specification SpecAnim: the renderer driven by animations, frames and    *)
(* the events that can arrive while an animation runs.                      *)

\* an animation that completes at once and one that takes several frames
Animations ==
    {[to_pos |-> <<64500, 60500, -30500>>, to_yaw |-> 0, to_pitch |-> 0,
      duration |-> 0, easing |-> "Linear"],
     [to_pos |-> <<70500, 70500, -40500>>, to_yaw |-> 1000, to_pitch |-> -500,
      duration |-> 50, easing |-> "CubicInOut"]}

NextAnim ==
    \/ Render(last_time + 40, MaxAnimOps)
    \/ \E a \in Animations :
          AnimateCamera(a.to_pos, a.to_yaw, a.to_pitch, a.duration, a.easing, MaxAnimOps)
    \/ SetCamera(GroundPose[1], GroundPose[2], GroundPose[3], MaxAnimOps)
    \/ TakeAnimationCompleted(MaxAnimOps)
    \/ BeginIntent("TrackForward", MaxAnimOps)
    \/ EndIntent("TrackForward", MaxAnimOps)
    \/ Scroll(1000, MaxAnimOps)

SpecAnim == RendererInit /\ [][NextAnim]_vars

-----------------------------------------------------------------------------
(* Specification SpecPreload: the renderer driven by preload hints, frames  *)
(* and camera snaps.  The default camera stands in chunk (2, 2, -2).        *)

\* a point eight chunks further on x, whose cube takes the slots of the
\* whole visible cube, and a point in the neighbouring chunk
PreloadTargets == {<<336000, 70000, -40000>>, <<112000, 70000, -40000>>}

NextPreload ==
    \/ Render(last_time + 40, MaxPreloadOps)
    \/ \E p \in PreloadTargets : PreloadView(p, MaxPreloadOps)
    \/ SetCamera(GroundPose[1], GroundPose[2], GroundPose[3], MaxPreloadOps)

SpecPreload == RendererInit /\ [][NextPreload]_vars

-----------------------------------------------------------------------------
(* Specification SpecSurface: frames whose surface texture may be           *)
(* unavailable, between input events.  Nothing runs after a panic.          *)

NextSurface ==
    \/ \E ok \in BOOLEAN : ~op.panicked /\ RenderFrame(last_time + 40, MaxSurfaceOps, ok)
    \/ \E i \in {"TrackForward", "Sprint"} : ~op.panicked /\ BeginIntent(i, MaxSurfaceOps)
    \/ \E dy \in ScrollAmounts : ~op.panicked /\ Scroll(dy, MaxSurfaceOps)
    \/ \E l \in LookDeltas : ~op.panicked /\ PointerMove(l[1], l[2], MaxSurfaceOps)

SpecSurface == RendererInit /\ [][NextSurface]_vars

-----------------------------------------------------------------------------
(* Specification SpecInput: key events and camera intents.  The key labels  *)
(* offered are the nine recognised ones, a letter with no binding and an    *)
(* upper-case "W"; the intents are all nine variants of CameraIntent.       *)

NextInput ==
    \/ \E key \in {"w", "s", "a", "d", "q", "e", "r", "f", "shift", "x", "W"} :
          KeyDown(key, MaxInputOps)
    \/ \E key \in {"w", "s", "a", "d", "q", "e", "r", "f", "shift", "x", "W"} :
          KeyUp(key, MaxInputOps)
    \/ \E i \in {"TrackForward", "TrackBackward", "TruckLeft", "TruckRight", "PanLeft",
                 "PanRight", "TiltUp", "TiltDown", "Sprint"} : BeginIntent(i, MaxInputOps)
    \/ \E i \in {"TrackForward", "TrackBackward", "TruckLeft", "TruckRight", "PanLeft",
                 "PanRight", "TiltUp", "TiltDown", "Sprint"} : EndIntent(i, MaxInputOps)

SpecInput == RendererInit /\ [][NextInput]_vars

-----------------------------------------------------------------------------
(* Specification SpecTerrainGrid: a chunk of air in which single cells are  *)
(* written, and the surface grid extracted from it.  A chunk's voxels are   *)
(* the function from the written indices z*32*32 + y*32 + x to the packed   *)
(* voxel; every other index holds 0.  The cells offered lie in the columns  *)
(* (0, 0) and (5, 7) at the heights 0, 10, 30 and 31; the materials are     *)
(* grass (1) and stone (3).  op.args holds the chunk, op.result the grid    *)
(* extracted from it.                                                       *)

\* cell writes per behaviour
MaxVoxelOps == 2

\* tests::air_chunk: every voxel is 0
air_chunk == [voxels |-> [i \in {} |-> 0]]

\* a variant of from_chunk that counts the headroom of a surface at the top
\* of the chunk like any other (0 cells) instead of storing 255
from_chunk_counted_top(chunk) ==
    LET material_id(voxel) == voxel % 256
        mat(x, y, z) ==
            LET i == z * CHUNK_SIZE * CHUNK_SIZE + y * CHUNK_SIZE + x
            IN  material_id(IF i \in DOMAIN chunk.voxels THEN chunk.voxels[i] ELSE 0)
        RECURSIVE count_headroom(_, _, _)
        count_headroom(x, start_y, z) ==
            IF start_y < CHUNK_SIZE /\ mat(x, start_y, z) = 0
            THEN 1 + count_headroom(x, start_y + 1, z)
            ELSE 0
        RECURSIVE surfaces(_, _, _)
        surfaces(x, y, z) ==
            IF y >= CHUNK_SIZE THEN <<>>
            ELSE IF mat(x, y, z) = 0 THEN surfaces(x, y + 1, z)
            ELSE IF y = CHUNK_SIZE - 1 \/ mat(x, y + 1, z) = 0
            THEN <<[y |-> y, terrain_id |-> mat(x, y, z),
                    headroom |-> count_headroom(x, y + 1, z) % 256]>>
                 \o surfaces(x, y + 1, z)
            ELSE surfaces(x, y + 1, z)
    IN  [columns |-> [k \in 1..(CHUNK_SIZE * CHUNK_SIZE) |->
                         surfaces((k - 1) % CHUNK_SIZE, 0, (k - 1) \div CHUNK_SIZE)]]

\* TerrainGrid::from_chunk: columns[z * 32 + x] (here 1-based) lists the
\* surfaces of column (x, z) from the bottom up; count_headroom counts the
\* consecutive air cells from start_y upward, material_to_terrain is the
\* identity on u8 and `headroom as u8` keeps the low eight bits
from_chunk(chunk) ==
    LET material_id(voxel) == voxel % 256
        material_to_terrain(m) == m
        mat(x, y, z) ==
            LET i == z * CHUNK_SIZE * CHUNK_SIZE + y * CHUNK_SIZE + x
            IN  material_id(IF i \in DOMAIN chunk.voxels THEN chunk.voxels[i] ELSE 0)
        RECURSIVE count_headroom(_, _, _)
        count_headroom(x, start_y, z) ==
            IF start_y < CHUNK_SIZE /\ mat(x, start_y, z) = 0
            THEN 1 + count_headroom(x, start_y + 1, z)
            ELSE 0
        RECURSIVE surfaces(_, _, _)
        surfaces(x, y, z) ==
            IF y >= CHUNK_SIZE THEN <<>>
            ELSE IF mat(x, y, z) = 0 THEN surfaces(x, y + 1, z)
            ELSE IF y = CHUNK_SIZE - 1
            THEN <<[y |-> y, terrain_id |-> material_to_terrain(mat(x, y, z)),
                    headroom |-> 255]>>
                 \o surfaces(x, y + 1, z)
            ELSE IF mat(x, y + 1, z) = 0
            THEN <<[y |-> y, terrain_id |-> material_to_terrain(mat(x, y, z)),
                    headroom |-> count_headroom(x, y + 1, z) % 256]>>
                 \o surfaces(x, y + 1, z)
            ELSE surfaces(x, y + 1, z)
    IN  [columns |-> [k \in 1..(CHUNK_SIZE * CHUNK_SIZE) |->
                         surfaces((k - 1) % CHUNK_SIZE, 0, (k - 1) \div CHUNK_SIZE)]]

\* tests::set_voxel: chunk.voxels[z*32*32 + y*32 + x] = pack_voxel(material, 0, 0, 0)
SetVoxel(x, y, z, material) ==
    /\ op.kind \in {"new", "set_voxel"}
    /\ steps < MaxVoxelOps
    /\ LET pack_voxel(m, param0, param1, flags) ==
               m + 256 * param0 + 65536 * param1 + 16777216 * flags
           i == z * CHUNK_SIZE * CHUNK_SIZE + y * CHUNK_SIZE + x
           v == (IF IsSome(op.args) THEN Unwrap(op.args) ELSE air_chunk).voxels
       IN  op' = [NoOp EXCEPT !.kind = "set_voxel",
                              !.args = Some([voxels |->
                                  [j \in DOMAIN v \cup {i} |->
                                      IF j = i THEN pack_voxel(material, 0, 0, 0)
                                      ELSE v[j]]])]
    /\ steps' = steps + 1
    /\ UNCHANGED <<mgrVars, visible, grid_info, tick_stats, rendVars, stream>>

\* TerrainGrid::from_chunk applied to the chunk built so far
FromChunk ==
    /\ op.kind \in {"new", "set_voxel"}
    /\ LET chunk == IF IsSome(op.args) THEN Unwrap(op.args) ELSE air_chunk
       IN  op' = [NoOp EXCEPT !.kind = "from_chunk", !.args = Some(chunk),
                              !.result = Some(from_chunk(chunk))]
    /\ UNCHANGED <<mgrVars, visible, grid_info, tick_stats, rendVars, stream, steps>>

NextTerrainGrid ==
    \/ \E xz \in {<<0, 0>>, <<5, 7>>}, y \in {0, 10, 30, 31}, material \in {1, 3} :
          SetVoxel(xz[1], y, xz[2], material)
    \/ FromChunk

\* no cell written yet (op.args = None stands for the chunk of air); the
\* manager plays no part
TerrainGridInit ==
    /\ Init
    /\ view_distance = 1
    /\ atlas_slots = <<3, 3, 3>>
    /\ chunk_gen = "terrain"

SpecTerrainGrid == TerrainGridInit /\ [][NextTerrainGrid]_vars

\* C40: in the grid extracted from any chunk, every column's surface list
\* is strictly increasing in y; the list has a surface at y exactly when the
\* cell (x, y, z) is solid and y = 31 or the cell above it is air; the
\* surface's headroom is the number of consecutive air cells directly above
\* it inside the chunk, except that a surface at y = 31 has headroom 255;
\* and its terrain id is the cell's material
C40_SurfaceExtraction ==
    op.kind = "from_chunk" =>
        LET v == Unwrap(op.args).voxels
            grid == Unwrap(op.result)
            cell(x, y, z) ==
                IF (z * 1024 + y * 32 + x) \in DOMAIN v THEN v[z * 1024 + y * 32 + x] % 256
                ELSE 0
            expected(x, y, z) ==
                cell(x, y, z) # 0 /\ (y = 31 \/ cell(x, y + 1, z) = 0)
            air_above(x, y, z) ==
                Cardinality({n \in 1..(31 - y) :
                                \A k \in 1..n : cell(x, y + k, z) = 0})
        IN  \A x \in 0..31, z \in 0..31 :
                LET list == grid.columns[z * 32 + x + 1]
                IN  /\ \A i \in 1..(Len(list) - 1) : list[i].y < list[i + 1].y
                    /\ {list[i].y : i \in 1..Len(list)} =
                           {y \in 0..31 : expected(x, y, z)}
                    /\ \A i \in 1..Len(list) :
                          /\ list[i].terrain_id = cell(x, list[i].y, z)
                          /\ list[i].headroom =
                                 IF list[i].y = 31 THEN 255
                                 ELSE air_above(x, list[i].y, z)

\* a grid with a two-surface column (ground under a bridge) or a surface at
\* the top of the chunk next to a column without surfaces
C40_Witness ==
    /\ op.kind = "from_chunk"
    /\ LET grid == Unwrap(op.result)
       IN  \/ /\ Len(grid.columns[1]) = 2
              /\ grid.columns[1][1] = [y |-> 0, terrain_id |-> 1, headroom |-> 9]
              /\ grid.columns[1][2] = [y |-> 10, terrain_id |-> 3, headroom |-> 21]
           \/ /\ grid.columns[7 * 32 + 5 + 1] =
                     <<[y |-> 31, terrain_id |-> 3, headroom |-> 255]>>
              /\ grid.columns[1] = <<[y |-> 30, terrain_id |-> 1, headroom |-> 1]>>

-----------------------------------------------------------------------------
(* Properties of the chunk manager (checked under Spec) *)

Stats == Unwrap(tick_stats)
AfterTick == op.kind = "tick"
VisibleNotLoaded == {c \in visible : c \notin DOMAIN loaded}

\* C1: after any tick, the number of coordinates of the visible cube that
\* are not loaded equals stats.pending_count (so pending_count = 0 means
\* the whole visible cube is loaded).
C1_PendingAccountsForVisible ==
    AfterTick => Cardinality(VisibleNotLoaded) = Stats.pending_count

\* C2: for every tick, loaded_this_tick <= budget, loaded_this_tick =
\* min(budget, length of the load queue), and the generator ran exactly
\* loaded_this_tick times.
C2_BudgetRespected ==
    AfterTick =>
        /\ Stats.loaded_this_tick <= op.budget
        /\ Stats.loaded_this_tick = Min(op.budget, op.queue_len)
        /\ op.gen_calls = Stats.loaded_this_tick

C2_Witness ==
    /\ AfterTick
    /\ op.queue_len > op.budget
    /\ op.budget > 0
    /\ op.gen_calls = op.budget

\* C3: load_chunk(c) on a coordinate that is not loaded leaves c loaded,
\* drops every other loaded coordinate of the same slot, and keeps every
\* loaded coordinate of another slot with its record unchanged.
C3_LoadChunkStep ==
    (op'.kind = "load_chunk" /\ Unwrap(op'.coord) \notin DOMAIN loaded) =>
        LET c == Unwrap(op'.coord)
        IN  /\ c \in DOMAIN loaded'
            /\ \A d \in (DOMAIN loaded) \ {c} :
                  IF world_to_slot(d, atlas_slots) = world_to_slot(c, atlas_slots)
                  THEN d \notin DOMAIN loaded'
                  ELSE d \in DOMAIN loaded' /\ loaded'[d] = loaded[d]
C3_LoadChunkEvicts == [][C3_LoadChunkStep]_vars

\* a load_chunk that evicted the occupant of its slot
C3_Witness ==
    /\ op.kind = "load_chunk"
    /\ op.coord = Some(<<3, 0, 0>>)
    /\ <<3, 0, 0>> \in DOMAIN loaded
    /\ <<0, 0, 0>> \notin DOMAIN loaded
    /\ Len(op.writes) = 3
    /\ op.writes[1].kind = "buffer" /\ op.writes[1].rec.flags = 0

\* C4: a chunk loaded before a tick is still loaded after it unless a
\* coordinate processed in that tick has the same slot.
C4_TickStep ==
    (op'.kind = "tick") =>
        \A d \in DOMAIN loaded :
            \/ d \in DOMAIN loaded'
            \/ \E q \in Range(op'.processed) :
                  world_to_slot(q, atlas_slots) = world_to_slot(d, atlas_slots)
C4_TickKeepsStale == [][C4_TickStep]_vars

\* a tick after the observer moved: chunks outside the visible cube stay
\* loaded, others were evicted by slot collision
C4_Witness ==
    /\ AfterTick
    /\ \E d \in DOMAIN loaded : d \notin visible
    /\ Stats.unloaded_this_tick > 0
    /\ Stats.cached_count > 0

\* C5: world_to_slot is injective on the visible set of a constructed
\* manager.
C5_VisibleSlotsUnique ==
    \A a \in visible : \A b \in visible :
        world_to_slot(a, atlas_slots) = world_to_slot(b, atlas_slots) => a = b

C5_Witness ==
    /\ AfterTick
    /\ Cardinality(visible) = 27
    /\ \E a \in visible : a[1] < 0

\* C16: after every tick at position p the grid info is the visible cube:
\* origin = floor(p / 32) - view_distance and size = 2 * view_distance + 1
\* on each axis, atlas_slots as configured, whatever the budget, the
\* loaded chunks and the animation.
C16_GridInfoIsVisibleCube ==
    AfterTick =>
        LET p == Unwrap(op.pos)
        IN  /\ \A k \in 1..3 :
                  /\ grid_info.origin[k] = (p[k] \div (32 * Milli)) - view_distance
                  /\ grid_info.size[k] = 2 * view_distance + 1
            /\ grid_info.atlas_slots = atlas_slots

\* a tick with budget 0 at a position with a negative coordinate, while
\* chunks around another position are loaded
C16_Witness ==
    /\ AfterTick
    /\ op.pos = Some(PosB)
    /\ op.budget = 0
    /\ Cardinality(DOMAIN loaded) = 27
    /\ grid_info.origin = <<-2, 0, -1>>

\* C17: the streaming state of every tick is Idle iff pending_count = 0,
\* Loading iff pending_count > 0 and loaded_this_tick > 0, and Stalled iff
\* pending_count > 0 and loaded_this_tick = 0.
C17_StreamingStateCases ==
    AfterTick =>
        /\ Stats.streaming_state = "Idle" <=> Stats.pending_count = 0
        /\ Stats.streaming_state = "Loading" <=>
               (Stats.pending_count > 0 /\ Stats.loaded_this_tick > 0)
        /\ Stats.streaming_state = "Stalled" <=>
               (Stats.pending_count > 0 /\ Stats.loaded_this_tick = 0)

\* a tick without budget that left the whole visible cube pending
C17_Witness ==
    /\ AfterTick
    /\ op.budget = 0
    /\ Stats.pending_count = 27
    /\ Stats.streaming_state = "Stalled"

\* C18: cached_count, the accessor and the statistic of the last tick, is
\* the number of loaded chunks whose coordinate is not in the visible set.
C18_CachedCountIsStale ==
    LET stale == Cardinality({c \in DOMAIN loaded : c \notin visible})
    IN  /\ SaturatingSub(Cardinality(DOMAIN loaded), Cardinality(visible)) = stale
        /\ AfterTick => Stats.cached_count = stale

\* C19: in every state each loaded record's slot is world_to_slot of its
\* own coordinate.
C19_SlotOfOwnCoordinate ==
    \A c \in DOMAIN loaded :
        loaded[c].slot = (c[3] % atlas_slots[3]) * atlas_slots[1] * atlas_slots[2]
                             + (c[2] % atlas_slots[2]) * atlas_slots[1]
                             + (c[1] % atlas_slots[1])

\* chunks with negative coordinates kept loaded after the observer moved
\* and other chunks were evicted
C19_Witness ==
    /\ AfterTick
    /\ op.pos = Some(PosA)
    /\ Stats.unloaded_this_tick > 0
    /\ \E c \in DOMAIN loaded : c \notin visible /\ c[1] < 0 /\ loaded[c].slot > 0

\* C20: for every slot the shadow record equals the record last written to
\* the index buffer, and its flags are 1 exactly when a loaded chunk with a
\* collision map has that slot, its world_pos then being that chunk's
\* coordinate; every other slot has flags 0.
C20_SlotRecordsMatchResidency ==
    \A sl \in DOMAIN slots :
        LET occupants == {c \in DOMAIN loaded :
                             IsSome(loaded[c].collision)
                             /\ world_to_slot(c, atlas_slots) = sl}
        IN  /\ slots[sl] = index_buffer[sl]
            /\ slots[sl].flags \in {0, 1}
            /\ slots[sl].flags = 1 <=> occupants # {}
            /\ \A c \in occupants : slots[sl].world_pos = c

\* an all-air chunk holds a slot whose record was cleared when it evicted
\* a chunk with voxels
C20_Witness ==
    \E c \in DOMAIN loaded :
        /\ ~IsSome(loaded[c].collision)
        /\ slots[loaded[c].slot].flags = 0
        /\ slots[loaded[c].slot].world_pos # c
        /\ slots[loaded[c].slot].world_pos # <<0, 0, 0>>
        /\ op.writes # <<>>

\* C22: is_solid(p) holds iff the chunk at floor(floor(p) / 32) is loaded
\* with a collision map and the voxel at the remainder has a material other
\* than 0; it is false in unloaded and in empty chunks, at negative
\* coordinates too, and a collision map answers false outside [0, 32)^3.
\* Checked at positions in the ground and in the air of chunks around the
\* origin, on both sides of zero on every axis.
C22_IsSolidMeaning ==
    /\ \A x \in {-500, 16500, 100500}, y \in {-500, 5500, 39500, 70500}, z \in {-500, 500} :
          LET v == <<x \div Milli, y \div Milli, z \div Milli>>
              cc == <<v[1] \div 32, v[2] \div 32, v[3] \div 32>>
          IN  is_solid(loaded, <<x, y, z>>) <=>
                  /\ cc \in DOMAIN loaded
                  /\ loaded[cc].collision # None
                  /\ MaterialAt(chunk_gen, cc, v[1] % 32, v[2] % 32, v[3] % 32) # 0
    /\ \A c \in DOMAIN loaded :
          IsSome(loaded[c].collision) =>
              \A k \in 1..3, out \in {-1, 32} :
                  ~CollisionMap_is_solid(Unwrap(loaded[c].collision),
                                         IF k = 1 THEN out ELSE 0,
                                         IF k = 2 THEN out ELSE 0,
                                         IF k = 3 THEN out ELSE 0)

\* a voxel with negative coordinates is solid in a loaded chunk, a voxel in
\* the ground of a chunk that is not loaded is not, and an all-air chunk is
\* loaded
C22_Witness ==
    /\ is_solid(loaded, <<-500, 5500, -500>>)
    /\ <<3, 0, 0>> \notin DOMAIN loaded
    /\ ~is_solid(loaded, <<100500, 5500, 500>>)
    /\ MaterialAt(chunk_gen, <<3, 0, 0>>, 4, 5, 0) # 0
    /\ \E c \in DOMAIN loaded : loaded[c].collision = None
    /\ ~is_solid(loaded, <<-500, 70500, -500>>)

\* C27: in every state no two loaded chunks have the same slot, and the
\* number of loaded chunks is at most Sx * Sy * Sz.
C27_SlotExclusive ==
    /\ \A c, d \in DOMAIN loaded : loaded[c].slot = loaded[d].slot => c = d
    /\ Cardinality(DOMAIN loaded) <= atlas_slots[1] * atlas_slots[2] * atlas_slots[3]

\* a tick with an animation filled every slot of the atlas, evicting chunks
\* it had loaded itself
C27_Witness ==
    /\ AfterTick
    /\ IsSome(op.anim)
    /\ Stats.loaded_this_tick > 27
    /\ Stats.unloaded_this_tick > 0
    /\ Cardinality(DOMAIN loaded) = 27
    /\ atlas_slots = <<3, 3, 3>>

\* C28: a tick without an animation evicts only chunks outside the visible
\* cube; after it the loaded visible coordinates are those loaded before
\* together with the coordinates it processed, and the number of visible
\* coordinates that are not loaded equals pending_count.
C28_PlainTickKeepsVisible ==
    [][(op'.kind = "tick" /\ op'.anim = None) =>
          /\ \A d \in DOMAIN loaded : d \notin DOMAIN loaded' => d \notin visible'
          /\ {c \in visible' : c \in DOMAIN loaded'}
                 = {c \in visible' : c \in DOMAIN loaded} \cup Range(op'.processed)
          /\ Cardinality({c \in visible' : c \notin DOMAIN loaded'})
                 = Unwrap(tick_stats').pending_count]_vars

\* a budgeted tick without an animation evicted chunks and left visible
\* coordinates pending
C28_Witness ==
    /\ AfterTick
    /\ op.anim = None
    /\ Stats.unloaded_this_tick > 0
    /\ Stats.loaded_this_tick > 0
    /\ Stats.pending_count > 0
    /\ \E c \in DOMAIN loaded : c \notin visible

\* C29: when load_chunk replaces an occupant, the first write it submits
\* is the slot record with flags = 0, followed, if the new chunk has
\* voxels, by the chunk's texels and then by the slot record with flags = 1
\* and the new coordinate; and in every operation a slot-record write with
\* flags = 1 comes directly after the texel write of the chunk it names, to
\* the same slot.
C29_WriteOrder ==
    [][/\ (/\ op'.kind = "load_chunk"
            /\ Unwrap(op'.coord) \notin DOMAIN loaded
            /\ \E d \in DOMAIN loaded :
                  loaded[d].slot = world_to_slot(Unwrap(op'.coord), atlas_slots)) =>
             LET c == Unwrap(op'.coord)
                 slot == world_to_slot(c, atlas_slots)
                 w == op'.writes
             IN  /\ Len(w) = IF IsSome(loaded'[c].collision) THEN 3 ELSE 1
                 /\ w[1].kind = "buffer" /\ w[1].slot = slot /\ w[1].rec.flags = 0
                 /\ Len(w) = 3 =>
                       /\ w[2].kind = "texture" /\ w[2].slot = slot /\ w[2].chunk.coord = c
                       /\ w[3].kind = "buffer" /\ w[3].slot = slot
                       /\ w[3].rec = [world_pos |-> c, flags |-> 1]
       /\ \A i \in DOMAIN op'.writes :
             (op'.writes[i].kind = "buffer" /\ op'.writes[i].rec.flags = 1) =>
                 /\ i > 1
                 /\ op'.writes[i - 1].kind = "texture"
                 /\ op'.writes[i - 1].slot = op'.writes[i].slot
                 /\ op'.writes[i - 1].chunk.coord = op'.writes[i].rec.world_pos]_vars

\* load_chunk((0,0,0)) replaced the chunk (3,0,0) in slot 0 with three
\* writes
C29_Witness ==
    /\ op.kind = "load_chunk"
    /\ op.coord = Some(<<0, 0, 0>>)
    /\ <<3, 0, 0>> \notin DOMAIN loaded
    /\ Len(op.writes) = 3
    /\ op.writes[1].rec = [world_pos |-> <<3, 0, 0>>, flags |-> 0]
    /\ op.writes[2].kind = "texture"
    /\ op.writes[3].rec = [world_pos |-> <<0, 0, 0>>, flags |-> 1]

\* C30: for every tick, unloaded_this_tick is the number of loaded records
\* removed during the tick (each removal clears a slot record), the loaded
\* count after the tick is the count before plus loaded_this_tick minus
\* unloaded_this_tick, and total_loaded is the loaded count when the tick
\* returns.
C30_EvictionAccounting ==
    [][op'.kind = "tick" =>
          LET st == Unwrap(tick_stats')
              w == op'.writes
          IN  /\ st.unloaded_this_tick
                     = Cardinality({i \in DOMAIN w : w[i].kind = "buffer" /\ w[i].rec.flags = 0})
              /\ st.unloaded_this_tick
                     >= Cardinality({d \in DOMAIN loaded : d \notin DOMAIN loaded'})
              /\ Cardinality(DOMAIN loaded')
                     = Cardinality(DOMAIN loaded) + st.loaded_this_tick - st.unloaded_this_tick
              /\ st.total_loaded = Cardinality(DOMAIN loaded')]_vars

\* a tick that loaded more chunks than it evicted, and one that evicted
\* chunks it had loaded itself
C30_Witness ==
    /\ AfterTick
    /\ Stats.unloaded_this_tick >= 2
    /\ Stats.loaded_this_tick > Stats.unloaded_this_tick
    /\ Stats.total_loaded = Cardinality(DOMAIN loaded)
    /\ Stats.total_loaded < Stats.loaded_this_tick + 3

\* C31: in the load queue the current view precedes the prediction: if a
\* tick loads a prediction coordinate outside the visible set then it
\* processed every visible coordinate that was not loaded when it began and
\* its budget exceeds their number; and pending_count is the number of
\* those visible coordinates less loaded_this_tick, or 0, whatever the
\* prediction adds to the queue.
C31_ViewBeforePrediction ==
    [][(op'.kind = "tick" /\ IsSome(op'.anim)) =>
          LET pending == {c \in visible' : c \notin DOMAIN loaded}
              st == Unwrap(tick_stats')
          IN  /\ (\E c \in Range(op'.processed) : c \notin visible') =>
                     /\ pending \subseteq Range(op'.processed)
                     /\ op'.budget > Cardinality(pending)
              /\ \A i, j \in DOMAIN op'.processed :
                     (op'.processed[i] \notin visible' /\ op'.processed[j] \in visible')
                         => j < i
              /\ st.pending_count =
                     IF Cardinality(pending) > st.loaded_this_tick
                     THEN Cardinality(pending) - st.loaded_this_tick ELSE 0
              /\ st.pending_count <= Cardinality(pending)]_vars

\* a tick with an animation and budget 20 finished the 7 pending visible
\* coordinates and spent the rest of its budget on the prediction
C31_Witness ==
    /\ AfterTick
    /\ IsSome(op.anim)
    /\ op.budget = 20
    /\ Stats.loaded_this_tick = 20
    /\ Stats.pending_count = 0
    /\ Cardinality({i \in DOMAIN op.processed : op.processed[i] \in visible}) = 7
    /\ op.queue_len > 20

\* C34: a tick reports Stalled iff its budget is 0 and some visible
\* coordinate is not loaded, so never with a budget of 1 or more; a tick
\* with budget 0 leaves the loaded map and every slot record unchanged and
\* submits no write, while the visible set and the grid info become those
\* of the observer's position.
C34_StalledOnlyWithoutBudget ==
    [][op'.kind = "tick" =>
          LET st == Unwrap(tick_stats')
              p == Unwrap(op'.pos)
          IN  /\ st.streaming_state = "Stalled" <=>
                     (op'.budget = 0 /\ \E c \in visible' : c \notin DOMAIN loaded)
              /\ op'.budget >= 1 => st.streaming_state \in {"Idle", "Loading"}
              /\ op'.budget = 0 =>
                     /\ loaded' = loaded
                     /\ slots' = slots
                     /\ index_buffer' = index_buffer
                     /\ op'.writes = <<>>
                     /\ op'.gen_calls = 0
                     /\ visible' = {c \in (-3..3) \X (-3..3) \X (-3..3) :
                                       \A k \in 1..3 :
                                           /\ c[k] >= (p[k] \div (32 * Milli)) - view_distance
                                           /\ c[k] <= (p[k] \div (32 * Milli)) + view_distance}
                     /\ \A k \in 1..3 :
                           grid_info'.origin[k] = (p[k] \div (32 * Milli)) - view_distance]_vars

\* a tick with budget 0 after the observer moved: Stalled, with the chunks
\* around the former position still loaded and the visible set moved
C34_Witness ==
    /\ AfterTick
    /\ op.budget = 0
    /\ Stats.streaming_state = "Stalled"
    /\ Stats.pending_count = 15
    /\ Cardinality(DOMAIN loaded) = 27
    /\ <<-2, 0, -1>> \in visible
    /\ <<1, -1, -1>> \in DOMAIN loaded

\* C35: load_chunk of a coordinate whose chunk is empty removes the slot's
\* occupant and clears its record, inserts a record without collision map
\* and terrain grid, uploads no texels and leaves the slot's flags at 0;
\* after every step a loaded record lacks its collision map iff it lacks
\* its terrain grid iff its chunk is empty, and terrain_grid(coord) is
\* absent for empty and for unloaded chunks.
C35_EmptyChunkLoad ==
    [][/\ (/\ op'.kind = "load_chunk"
            /\ Unwrap(op'.coord) \notin DOMAIN loaded
            /\ ChunkIsEmpty(GenChunk(chunk_gen, Unwrap(op'.coord)))) =>
             LET c == Unwrap(op'.coord)
                 slot == world_to_slot(c, atlas_slots)
                 occupants == {d \in DOMAIN loaded : loaded[d].slot = slot}
                 w == op'.writes
             IN  /\ DOMAIN loaded' = ((DOMAIN loaded) \ occupants) \cup {c}
                 /\ loaded'[c] = [slot |-> slot, collision |-> None, terrain |-> None]
                 /\ \A i \in DOMAIN w : w[i].kind # "texture"
                 /\ Len(w) = IF occupants = {} THEN 0 ELSE 1
                 /\ occupants # {} =>
                       w[1].kind = "buffer" /\ w[1].slot = slot /\ w[1].rec.flags = 0
                 /\ slots'[slot].flags = 0
                 /\ index_buffer'[slot].flags = 0
                 /\ op'.gen_calls = 1
       /\ \A c \in DOMAIN loaded' :
             /\ loaded'[c].collision = None <=> loaded'[c].terrain = None
             /\ loaded'[c].terrain = None <=> ChunkIsEmpty(GenChunk(chunk_gen, c))
             /\ ChunkIsEmpty(GenChunk(chunk_gen, c)) => terrain_grid(loaded', c) = None
       /\ \A c \in LoadCoords \cup {<<0, -1, 0>>, <<5, 5, 5>>} :
             c \notin DOMAIN loaded' => terrain_grid(loaded', c) = None]_vars

\* load_chunk of the all-air chunk (0,2,0) evicted the chunk (0,-1,0) with
\* a single write, the clearing of slot 6
C35_Witness ==
    /\ op.kind = "load_chunk"
    /\ op.coord = Some(<<0, 2, 0>>)
    /\ <<0, -1, 0>> \notin DOMAIN loaded
    /\ Cardinality(DOMAIN loaded) = 27
    /\ Len(op.writes) = 1
    /\ op.writes[1].rec = [world_pos |-> <<0, -1, 0>>, flags |-> 0]
    /\ terrain_grid(loaded, <<0, 2, 0>>) = None
    /\ terrain_grid(loaded, <<0, 0, 0>>) # None

\* C36: a tick is deterministic: from any state of the manager, two ticks
\* with the same observer position, budget and animation end with equal
\* loaded maps and equal statistics, whatever order the visible set is
\* iterated in.
C36_TickDeterministic ==
    \A pos \in TickPositions, budget \in Budgets, h1, h2 \in 0..(HashOrders - 1) :
        LET run(h) == tick_budgeted_with_prediction(MgrOf, chunk_gen, atlas_slots,
                                                    view_distance, pos, budget, None, h)
            same(r1, r2) == r1.m.loaded = r2.m.loaded /\ r1.stats = r2.stats
        IN  same(run(h1), run(h2))

\* C37: load_chunk of a loaded coordinate and unload_chunk of a coordinate
\* that is not loaded change neither the loaded map nor any slot record,
\* submit no write and do not invoke the generator; unload_chunk of a
\* loaded coordinate removes that record only and clears its slot only,
\* with one write.
C37_NoOpsAndUnload ==
    [][/\ (\/ op'.kind = "load_chunk" /\ Unwrap(op'.coord) \in DOMAIN loaded
           \/ op'.kind = "unload_chunk" /\ Unwrap(op'.coord) \notin DOMAIN loaded) =>
             /\ loaded' = loaded
             /\ slots' = slots
             /\ index_buffer' = index_buffer
             /\ op'.writes = <<>>
             /\ op'.gen_calls = 0
       /\ (op'.kind = "unload_chunk" /\ Unwrap(op'.coord) \in DOMAIN loaded) =>
             LET c == Unwrap(op'.coord)
                 slot == loaded[c].slot
             IN  /\ DOMAIN loaded' = (DOMAIN loaded) \ {c}
                 /\ \A d \in DOMAIN loaded' : loaded'[d] = loaded[d]
                 /\ DOMAIN slots' = DOMAIN slots
                 /\ \A i \in DOMAIN slots :
                       slots'[i] = IF i = slot
                                   THEN [world_pos |-> slots[i].world_pos, flags |-> 0]
                                   ELSE slots[i]
                 /\ index_buffer' = slots'
                 /\ op'.writes = <<[kind |-> "buffer", slot |-> slot, rec |-> slots'[slot]]>>
                 /\ op'.gen_calls = 0]_vars

\* after a tick loaded the cube around chunk (0,0,0): a load_chunk of
\* (0,0,0) that did nothing, or an unload_chunk of (0,0,0) that left the
\* other 26 chunks loaded
C37_Witness ==
    /\ op.coord = Some(<<0, 0, 0>>)
    /\ \/ /\ op.kind = "load_chunk"
          /\ Cardinality(DOMAIN loaded) = 27
          /\ op.writes = <<>>
          /\ op.gen_calls = 0
       \/ /\ op.kind = "unload_chunk"
          /\ Cardinality(DOMAIN loaded) = 26
          /\ Len(op.writes) = 1
          /\ slots[0] = [world_pos |-> <<0, 0, 0>>, flags |-> 0]

\* C39: compute_visible_set(p, d) holds exactly the (2d+1)^3 chunk
\* coordinates of the cube centred on floor(p / 32), floored towards minus
\* infinity, each once, ordered by z, then y, then x; and after a tick the
\* visible set is that of the observer's position.
C39_VisibleSetIsCube ==
    /\ \A p \in {PosA, PosB, <<-500, -32000, 31999>>, <<-64001, 95000, -1>>}, d \in 0..2 :
          LET s == compute_visible_set(p, d)
              centre == <<p[1] \div (32 * Milli), p[2] \div (32 * Milli), p[3] \div (32 * Milli)>>
              key(c) == ((c[3] - centre[3] + d) * (2 * d + 1) + (c[2] - centre[2] + d))
                            * (2 * d + 1) + (c[1] - centre[1] + d)
          IN  /\ Len(s) = (2 * d + 1) * (2 * d + 1) * (2 * d + 1)
              /\ Range(s) = {c \in ((centre[1] - d)..(centre[1] + d))
                                     \X ((centre[2] - d)..(centre[2] + d))
                                     \X ((centre[3] - d)..(centre[3] + d)) : TRUE}
              /\ \A i \in DOMAIN s : key(s[i]) = i - 1
    /\ AfterTick => visible = Range(compute_visible_set(Unwrap(op.pos), view_distance))

\* a tick at a position with a negative coordinate: the visible set runs
\* from (-2,0,-1) to (0,2,1)
C39_Witness ==
    /\ AfterTick
    /\ op.pos = Some(PosB)
    /\ compute_visible_set(PosB, view_distance)[1] = <<-2, 0, -1>>
    /\ compute_visible_set(PosB, view_distance)[2] = <<-1, 0, -1>>
    /\ compute_visible_set(PosB, view_distance)[27] = <<0, 2, 1>>
    /\ Cardinality(visible) = 27
    /\ <<-2, 2, 1>> \in visible

\* C26: after a tick that is given an animation and a budget no smaller
\* than its load queue, the chunk that contains the animation's end
\* position is loaded, and if some prediction coordinate was neither
\* visible nor loaded then loaded_this_tick exceeds the number of visible
\* coordinates that were not loaded.
C26_PredictionIsLoaded ==
    [][(op'.kind = "tick" /\ IsSome(op'.anim) /\ op'.budget >= op'.queue_len) =>
          LET anim == Unwrap(op'.anim)
              end_chunk == cam_chunk_of(position_at(anim, Milli))
          IN  /\ end_chunk \in DOMAIN loaded'
              /\ (\E c \in Range(prediction_chunks(anim)) :
                        c \notin visible' /\ c \notin DOMAIN loaded)
                  => Unwrap(tick_stats').loaded_this_tick
                         > Cardinality({c \in visible' : c \notin DOMAIN loaded})]_vars

\* C33: every camera uniform written by render carries the pose the camera
\* has after that frame's update and the grid info of that frame's tick:
\* its position is the camera's, its grid_origin is floor(position / 32)
\* less the view distance and its grid_size is 2 * view distance + 1 on
\* every axis.
C33_UniformAfterUpdateAndTick ==
    op.kind = "render" =>
        LET u == Unwrap(op.args)
            ov == orientation_vectors(camera)
        IN  /\ u.position = camera.position
            /\ u.forward = ov[1] /\ u.right = ov[2] /\ u.up = ov[3]
            /\ \A k \in 1..3 :
                  /\ u.grid_origin[k] = (camera.position[k] \div (32 * Milli)) - view_distance
                  /\ u.grid_size[k] = 2 * view_distance + 1
            /\ u.grid_origin = grid_info.origin
            /\ u.atlas_slots = atlas_slots

\* a frame in which the camera entered another chunk, so that the grid
\* origin written differs from the one of the frame before
C33_Witness ==
    /\ op.kind = "render"
    /\ Unwrap(op.args).position # Camera_default.position
    /\ Unwrap(op.args).grid_origin # compute_grid_info(
            Range(compute_visible_set(Camera_default.position, view_distance)),
            atlas_slots).origin

-----------------------------------------------------------------------------
(* Properties of the camera uniform (checked under SpecSurface) *)

\* C25: the camera uniform is 128 bytes long; position, forward, right, up,
\* fov, width, height, grid_origin, max_ray_distance, grid_size and
\* atlas_slots start at bytes 0, 16, 32, 48, 60, 64, 68, 80, 92, 96 and 112;
\* no two fields overlap; and in the uniform that to_uniform builds from
\* the renderer's camera and grid info every field other than those eleven,
\* that is every byte between them, is zero while the eleven carry the
\* camera's and the grid's values.
C25_UniformLayout ==
    LET layout == CameraUniform
        \* the bytes of the fields before the i-th, counted word by word
        offset_of(i) == 4 * Cardinality({<<j, w>> \in (1..(i - 1)) \X (1..3) : 4 * w <= layout[j][2]})
        index_of(name) == CHOOSE i \in DOMAIN layout : layout[i][1] = name
        listed == <<<<"position", 0>>, <<"forward", 16>>, <<"right", 32>>, <<"up", 48>>,
                    <<"fov", 60>>, <<"width", 64>>, <<"height", 68>>,
                    <<"grid_origin", 80>>, <<"max_ray_distance", 92>>,
                    <<"grid_size", 96>>, <<"atlas_slots", 112>>>>
        names == {listed[i][1] : i \in DOMAIN listed}
        u == to_uniform(camera, 800, 600, grid_info)
        ov == orientation_vectors(camera)
    IN  /\ offset_of(Len(layout) + 1) = 128
        /\ \A i \in DOMAIN listed :
              /\ \E k \in DOMAIN layout : layout[k][1] = listed[i][1]
              /\ offset_of(index_of(listed[i][1])) = listed[i][2]
        /\ \A i, j \in DOMAIN layout :
              i < j => offset_of(i) + layout[i][2] <= offset_of(j)
        /\ DOMAIN u = {layout[i][1] : i \in DOMAIN layout}
        /\ \A i \in DOMAIN layout : layout[i][1] \notin names => u[layout[i][1]] = 0
        /\ u.position = camera.position /\ u.forward = ov[1] /\ u.right = ov[2]
        /\ u.up = ov[3] /\ u.fov = camera.fov /\ u.width = 800 /\ u.height = 600
        /\ u.grid_origin = grid_info.origin /\ u.grid_size = grid_info.size
        /\ u.max_ray_distance = grid_info.max_ray_distance
        /\ u.atlas_slots = grid_info.atlas_slots

\* a frame was rendered with the camera away from its default pose over a
\* 7 x 7 x 7 grid, whose diagonal of 387.98 voxels is rounded up to 388
C25_Witness ==
    /\ op.kind = "render"
    /\ ~op.panicked
    /\ camera.position # Camera_default.position
    /\ to_uniform(camera, 800, 600, grid_info).max_ray_distance = 388
    /\ to_uniform(camera, 800, 600, grid_info).grid_size = <<7, 7, 7>>
    /\ to_uniform(camera, 800, 600, grid_info).position = camera.position

-----------------------------------------------------------------------------
(* Properties of the input state (checked under SpecInput) *)

\* C24: a key event with a label outside w, s, a, d, q, e, r, f, shift
\* leaves all nine input booleans unchanged; a key event with one of those
\* labels, and the beginning or end of any camera intent, sets (down, begin)
\* or clears (up, end) the boolean it is bound to and leaves the other
\* eight unchanged.
C24_InputMappingExact ==
    [][op'.kind \in {"key_down", "key_up", "begin_intent", "end_intent"} =>
          LET name == op'.mode
              field ==
                  CASE name \in {"w", "TrackForward"} -> "forward"
                    [] name \in {"s", "TrackBackward"} -> "backward"
                    [] name \in {"a", "TruckLeft"} -> "left"
                    [] name \in {"d", "TruckRight"} -> "right"
                    [] name \in {"q", "PanLeft"} -> "yaw_left"
                    [] name \in {"e", "PanRight"} -> "yaw_right"
                    [] name \in {"r", "TiltUp"} -> "pitch_up"
                    [] name \in {"f", "TiltDown"} -> "pitch_down"
                    [] name \in {"shift", "Sprint"} -> "sprint"
                    [] OTHER -> "none"
          IN  /\ DOMAIN input' = DOMAIN input
              /\ \A f \in DOMAIN input :
                    input'[f] = IF f = field
                                THEN op'.kind \in {"key_down", "begin_intent"}
                                ELSE input[f]]_vars

\* with Track Forward held by key and Sprint by intent, an unbound key
\* went down; and a key was released while another boolean stayed set
C24_Witness ==
    \/ /\ op.kind = "key_down"
       /\ op.mode = "x"
       /\ input.forward
       /\ input.sprint
    \/ /\ op.kind = "key_up"
       /\ op.mode = "q"
       /\ ~input.yaw_left
       /\ input.pitch_down

-----------------------------------------------------------------------------
(* Properties of interpolation in f32 (checked under SpecF32) *)

\* C21: an animation with duration <= 0 completes on its first advance and
\* interpolate, evaluated with t = 1.0, leaves the camera exactly at the
\* target pose: the interpolated angle equals the target angle.
C21_EndsAtTargetPose ==
    (op.kind = "interpolate" /\ Unwrap(op.args)[3] = 1) =>
        Unwrap(op.attempt) = Unwrap(op.args)[2]

\* C38: for an animation with duration > 0 advanced by dt >= 0, elapsed
\* never exceeds duration, is_complete holds iff elapsed >= duration, a
\* complete animation stays complete under further advances, and
\* interpolate returns the from-angle at elapsed 0 and exactly the to-angle
\* once complete, however far the advance overshoots.
C38_AnimationReachesTarget ==
    [][op'.kind \in {"animate", "advance"} =>
          LET a == Unwrap(animation')
          IN  /\ a.elapsed <= a.duration
              /\ is_complete(a) <=> a.elapsed >= a.duration
              /\ (IsSome(animation) /\ is_complete(Unwrap(animation))) => is_complete(a)
              /\ a.elapsed = 0 => Unwrap(op'.attempt) = a.from_yaw
              /\ is_complete(a) => Unwrap(op'.attempt) = a.to_yaw]_vars

-----------------------------------------------------------------------------
(* Properties of construction (checked under SpecNew) *)

\* C15: constructing a manager panics if and only if atlas_slots is
\* smaller than 2 * view_distance + 1 on at least one axis; otherwise it
\* yields a manager with the given parameters and no loaded chunk.
C15_ConstructionFailsIff ==
    op.kind = "new" =>
        LET vd == Unwrap(op.args)[1]
            S == Unwrap(op.args)[2]
        IN  /\ op.panicked <=> (\E k \in 1..3 : S[k] < 2 * vd + 1)
            /\ ~op.panicked =>
                  /\ Cardinality(DOMAIN loaded) = 0
                  /\ view_distance = vd /\ atlas_slots = S
                  /\ DOMAIN slots = 0..(S[1] * S[2] * S[3] - 1)

\* a construction refused for one axis only
C15_Witness ==
    /\ op.kind = "new"
    /\ op.panicked
    /\ op.args = Some(<<1, <<3, 2, 3>>>>)

\* C23: in a constructed manager with atlas shape S, for every chunk
\* coordinate c, negative ones included, world_to_slot(c) lies in
\* [0, Sx*Sy*Sz), slot_to_atlas_origin(world_to_slot(c)) / 32 is
\* (c.x mod Sx, c.y mod Sy, c.z mod Sz), and world_to_slot(c) equals
\* world_to_slot of c moved by S along any axis, forwards or backwards.
C23_AtlasRoundTrip ==
    ~op.panicked =>
        LET S == atlas_slots
        IN  \A x \in -5..5, y \in -4..4, z \in -4..4 :
                LET c == <<x, y, z>>
                    slot == world_to_slot(c, S)
                    origin == slot_to_atlas_origin(slot, S)
                IN  /\ slot >= 0
                    /\ slot < S[1] * S[2] * S[3]
                    /\ origin[1] \div 32 = x % S[1]
                    /\ origin[2] \div 32 = y % S[2]
                    /\ origin[3] \div 32 = z % S[3]
                    /\ \A k \in {-1, 1} :
                          /\ world_to_slot(<<x + k * S[1], y, z>>, S) = slot
                          /\ world_to_slot(<<x, y + k * S[2], z>>, S) = slot
                          /\ world_to_slot(<<x, y, z + k * S[3]>>, S) = slot

\* in a 4 x 3 x 3 atlas the chunk at (-1, -1, -1) was uploaded to slot 35,
\* at texel origin (96, 64, 64)
C23_Witness ==
    /\ atlas_slots = <<4, 3, 3>>
    /\ <<-1, -1, -1>> \in DOMAIN loaded
    /\ loaded[<<-1, -1, -1>>].slot = 35
    /\ \E i \in DOMAIN op.writes :
          /\ op.writes[i].kind = "texture"
          /\ op.writes[i].slot = 35
          /\ op.writes[i].origin = <<96, 64, 64>>

-----------------------------------------------------------------------------
(* Properties of budgeted streaming (checked under SpecStream) *)

\* C6: with a stationary observer, no animation and budget b >= 1, if m
\* visible coordinates are not loaded then tick k loads min(b, remaining),
\* tick ceil(m/b) reports pending_count = 0 and Idle with the whole visible
\* cube loaded, and every later tick loads 0, evicts 0 and reports Idle.
C6_StreamingTerminates ==
    stream # None =>
        LET st == Unwrap(stream)
            before == Max(st.m0 - (st.n - 1) * st.budget, 0)
            last == CeilDiv(st.m0, st.budget)
        IN  /\ Stats.loaded_this_tick = Min(st.budget, before)
            /\ Stats.pending_count = before - Min(st.budget, before)
            /\ Cardinality(VisibleNotLoaded) = Stats.pending_count
            /\ st.n < last => Stats.streaming_state = "Loading"
            /\ st.n >= last =>
                  /\ Stats.pending_count = 0
                  /\ Stats.streaming_state = "Idle"
                  /\ visible \subseteq DOMAIN loaded
            /\ st.n > last =>
                  /\ Stats.loaded_this_tick = 0
                  /\ Stats.unloaded_this_tick = 0

\* a run that needed several ticks, seen one tick after it became Idle
C6_Witness ==
    /\ stream # None
    /\ Unwrap(stream).m0 > 2 * Unwrap(stream).budget
    /\ Unwrap(stream).n = CeilDiv(Unwrap(stream).m0, Unwrap(stream).budget) + 1
    /\ Stats.streaming_state = "Idle"
    /\ Stats.loaded_this_tick = 0
    /\ Stats.cached_count > 0

\* C32: after a budgeted tick without an animation, every visible chunk
\* loaded in that tick is at most as far (in squared chunk distance) from
\* the observer's chunk as every visible chunk still not loaded; with
\* budget 1 and nothing loaded, the observer's own chunk is the one loaded.
C32_ClosestFirst ==
    [][(op'.kind = "tick" /\ op'.anim = None) =>
          LET p == Unwrap(op'.pos)
              cam == <<p[1] \div (32 * Milli), p[2] \div (32 * Milli), p[3] \div (32 * Milli)>>
              d2(c) == (c[1] - cam[1]) * (c[1] - cam[1]) + (c[2] - cam[2]) * (c[2] - cam[2])
                           + (c[3] - cam[3]) * (c[3] - cam[3])
          IN  /\ \A c \in Range(op'.processed) :
                    /\ c \in visible' /\ c \in DOMAIN loaded' /\ c \notin DOMAIN loaded
                    /\ \A d \in visible' : d \notin DOMAIN loaded' => d2(c) <= d2(d)
              /\ (op'.budget = 1 /\ DOMAIN loaded = {}) => DOMAIN loaded' = {cam}]_vars

\* a tick with budget 1 on an empty manager, and a later tick of that run
\* that loaded a chunk at distance 1 while chunks at distance 1 and more
\* were still pending
C32_Witness ==
    /\ AfterTick
    /\ op.budget = 1
    /\ Len(op.processed) = 1
    /\ \/ DOMAIN loaded = {cam_chunk_of(Unwrap(op.pos))}
       \/ /\ Cardinality(DOMAIN loaded) = 3
          /\ Stats.pending_count = 24
          /\ Stats.streaming_state = "Loading"

-----------------------------------------------------------------------------
(* Properties of the camera (checked under SpecCamera) *)

\* C7: after every operation that mutates the camera, the pitch lies in
\* [-89 degrees, +89 degrees].
C7_PitchBounded ==
    0 - PITCH_LIMIT <= camera.pitch /\ camera.pitch <= PITCH_LIMIT

\* C8: for every translation attempted through render's manual update,
\* scroll or pan: if the new position lies in another voxel than the old
\* one and is_solid(new) holds, the stored position is the old one;
\* otherwise it is the new one.
C8_MotionStep ==
    (op'.kind \in {"scroll", "pan"} \/ (op'.kind = "render" /\ op'.mode = "manual")) =>
        LET old == camera.position
            new == Unwrap(op'.attempt)
            other_voxel == \E k \in 1..3 : old[k] \div Milli # new[k] \div Milli
        IN  camera'.position = IF other_voxel /\ is_solid(loaded, new) THEN old ELSE new
C8_MotionSafety == [][C8_MotionStep]_vars

\* a scroll into a solid voxel that was refused, from a camera in the air
C8_Witness ==
    /\ op.kind = "scroll"
    /\ Unwrap(op.attempt) # camera.position
    /\ is_solid(loaded, Unwrap(op.attempt))
    /\ ~is_solid(loaded, camera.position)

\* C11: set_camera cancels any active animation and sets the pose to its
\* arguments with the pitch clamped; the render that follows it takes the
\* manual branch, so the camera moves only by the held input.
C11_SnapStep ==
    /\ op'.kind = "set_camera" =>
          LET a == Unwrap(op'.args)
          IN  /\ animation' = None
              /\ camera'.position = a[1]
              /\ camera'.yaw = a[2]
              /\ camera'.pitch = Max(0 - PITCH_LIMIT, Min(a[3], PITCH_LIMIT))
    /\ (op.kind = "set_camera" /\ op'.kind = "render") =>
          /\ op'.mode = "manual"
          /\ animation' = None
          /\ LET moved == Camera_update(camera, input, op'.dt)
             IN  /\ camera'.yaw = moved.yaw /\ camera'.pitch = moved.pitch
                 /\ camera'.position \in {moved.position, camera.position}
C11_SetCameraSnaps == [][C11_SnapStep]_vars

\* a set_camera that cancelled a running animation and clamped the pitch
C11_Witness ==
    /\ op.kind = "set_camera"
    /\ op.mode = "animation"
    /\ animation = None
    /\ Unwrap(op.args)[3] > PITCH_LIMIT
    /\ camera.pitch = PITCH_LIMIT
    /\ camera.position = BuriedPose[1]

-----------------------------------------------------------------------------
(* Properties of preload hints (checked under SpecPreload) *)

\* C12: a preload hint applies to the next render only: a render that
\* directly follows another render, with no preload call in between,
\* loads nothing beyond what its tick loads.
C12_PreloadStep ==
    (op.kind = "render" /\ op'.kind = "render") =>
        op'.gen_calls = Unwrap(tick_stats').loaded_this_tick
C12_PreloadOnce == [][C12_PreloadStep]_vars

\* C13: when a render returns with a preload hint p set, every coordinate
\* within view_distance of floor(p / 32) on each axis is loaded, whatever
\* the budget, and the render's tick loaded at most the budget.
C13_PreloadCubeLoaded ==
    (op.kind = "render" /\ preload_position # None) =>
        LET p == Unwrap(preload_position)
            lo(k) == (p[k] \div (32 * Milli)) - view_distance
            hi(k) == (p[k] \div (32 * Milli)) + view_distance
        IN  /\ \A x \in lo(1)..hi(1), y \in lo(2)..hi(2), z \in lo(3)..hi(3) :
                  <<x, y, z>> \in DOMAIN loaded
            /\ Stats.loaded_this_tick <= CHUNK_BUDGET_PER_TICK

\* a render whose tick used its whole budget and whose preload loop loaded
\* more chunks than the budget allows
C13_Witness ==
    /\ op.kind = "render"
    /\ preload_position = Some(<<112000, 70000, -40000>>)
    /\ Stats.loaded_this_tick = CHUNK_BUDGET_PER_TICK
    /\ Stats.pending_count > 0
    /\ op.gen_calls - Stats.loaded_this_tick > CHUNK_BUDGET_PER_TICK

-----------------------------------------------------------------------------
(* Properties of frame presentation (checked under SpecSurface) *)

\* C14: a render whose surface texture is unavailable drops the frame and
\* returns normally: no render ends in a panic.
C14_SurfaceLossDropsFrame == op.kind = "render" => ~op.panicked

-----------------------------------------------------------------------------
(* Properties of animations (checked under SpecAnim) *)

\* C9: a render that starts with an active animation sets the camera pose
\* to the animation's interpolation and does not integrate the held
\* intents; begin_intent and end_intent still update the input record
\* while an animation is active; a render that starts without an animation
\* integrates the intents held at that time.
C9_RenderStep ==
    /\ (op'.kind = "render" /\ animation # None) =>
          /\ op'.mode = "animation"
          /\ <<camera'.position, camera'.yaw, camera'.pitch>>
                 = interpolate(advance(Unwrap(animation), op'.dt))
    /\ (op'.kind = "begin_intent" /\ op'.mode = "TrackForward") =>
          input'.forward /\ animation' = animation
    /\ (op'.kind = "end_intent" /\ op'.mode = "TrackForward") =>
          ~input'.forward /\ animation' = animation
    /\ (op'.kind = "render" /\ animation = None) =>
          /\ op'.mode = "manual"
          /\ LET moved == Camera_update(camera, input, op'.dt)
             IN  /\ camera'.yaw = moved.yaw /\ camera'.pitch = moved.pitch
                 /\ camera'.position \in {moved.position, camera.position}
                 /\ input.forward /\ ~is_solid(loaded, moved.position) =>
                        camera'.position # camera.position
C9_AnimationPriority == [][C9_RenderStep]_vars

\* the first manual render after an animation completed with an intent
\* held throughout: the animation's pose was set, then the intent moved
\* the camera away from the animation's target
C9_Witness ==
    /\ op.kind = "render" /\ op.mode = "manual"
    /\ animation_just_completed
    /\ input.forward
    /\ steps = 4
    /\ camera.position \notin {a.to_pos : a \in Animations} \cup {DEFAULT_POSITION}

\* C10: take_animation_completed returns the latch and clears it; the
\* latch is set exactly by a render in which an animation reaches its
\* duration, and no other operation (set_camera cancelling, animate_camera
\* replacing an animation) changes it; a repeated call returns false.
C10_LatchStep ==
    /\ op'.kind = "take_animation_completed" =>
          /\ op'.result = Some(animation_just_completed)
          /\ ~animation_just_completed'
          /\ op.kind = "take_animation_completed" => op'.result = Some(FALSE)
    /\ op'.kind = "render" =>
          IF animation # None
             /\ Unwrap(animation).elapsed + op'.dt >= Unwrap(animation).duration
          THEN animation_just_completed' /\ animation' = None
          ELSE animation_just_completed' = animation_just_completed
    /\ op'.kind \notin {"take_animation_completed", "render"} =>
          animation_just_completed' = animation_just_completed
C10_CompletionLatch == [][C10_LatchStep]_vars

\* a call that returned true after an animation completed in render
C10_Witness ==
    /\ op.kind = "take_animation_completed"
    /\ op.result = Some(TRUE)
    /\ ~animation_just_completed
    /\ animation = None

=============================================================================
